---------------------------- MODULE Spec2Model ----------------------------
(***************************************************************************)
(* A model of the spmpup SUVR pipeline: ROI extraction (extract_roi_data), *)
(* pair-based reference normalisation (calculate_suvrlr), named-ROI and    *)
(* composite aggregation (calculate_suvr,                                  *)
(* calculate_composite_suvr_and_signal), the report driver (report_suvr),  *)
(* SUVR image synthesis (compute_suvr), the resource catalogue             *)
(* (get_pet_resource), the simple extraction (extract_suv), the           *)
(* orchestration (run_pup) and the field-of-view mask (create_pet_fov).    *)
(*                                                                         *)
(* Floating-point values are modelled as exact rationals <<n, d>> with     *)
(* d > 0 in lowest terms, extended with the IEEE specials the numpy        *)
(* operations of the source produce instead of raising: NaN = <<0, 0>>,    *)
(* +inf = <<1, 0>>, -inf = <<-1, 0>>.  Rounding is not modelled.           *)
(*                                                                         *)
(* Volumes are arrays of shape <<1, 1, Z>>: [shape, data] with data a      *)
(* sequence of Z voxels.  Strings that the code matches on are sequences   *)
(* of one-character strings, so that substring search is computed.         *)
(***************************************************************************)
EXTENDS Integers, Sequences, FiniteSets, TLC

VARIABLES
    pc,            \* position of the running function
    err,           \* "none", or the exception / exit that ended the run
    files_ok,      \* whether nib.load succeeds on the three files
    label_data,    \* extract_roi_data: label volume; extract_suv: the atlas file
    pet_data,      \* extract_roi_data: PET volume
    fov_data,      \* extract_roi_data: FOV volume; create_pet_fov: fov_mask
    label_ids,     \* extract_roi_data: labels still to iterate (np.unique order)
    roi_label_id,  \* extract_roi_data: list of emitted label ids
    label_names,   \* extract_roi_data: list of emitted names
    mean_values,   \* extract_roi_data: list of emitted means
    num_voxels,    \* extract_roi_data: list of emitted voxel counts
    df,            \* the table (sequence of rows) a function receives / returns
    roi_names,     \* calculate_composite_suvr_and_signal: the constituent names
    ref_value,     \* calculate_suvrlr's second result / calculate_suvr's argument
    result_df,     \* calculate_suvr / composite: the table being built
    rule,          \* calculate_suvr: index of the next composite rule
    calls,         \* number of calculate_suvrlr calls made on df
    message,       \* the names / keys the last diagnostic or error message lists
    args,          \* the arguments of the running call
    mask_data,     \* compute_suvr: reference mask volume
    mean_value,    \* compute_suvr: mean of the PET over the mask
    pet_img,       \* compute_suvr: affine and header of the PET image
    suvr_img,      \* compute_suvr: the image built at line 118
    written,       \* files written so far
    labels_list,   \* extract_suv: (label_index, roi_name) pairs of the label file
    results,       \* extract_suv: the rows collected so far
    ret,           \* value returned by the call
    atlas_data,    \* extract_suv: the atlas, multiplied by the FOV if one is given
    frame,         \* report_suvr: its parameters and local variables
    opened,        \* report_suvr: the files extract_roi_data loads
    step,          \* run_pup: index of the next call
    external_ok    \* run_pup: whether each external tool / file step succeeds

\* the state of extract_roi_data
extractVars == <<files_ok, label_data, pet_data, fov_data, label_ids,
                 roi_label_id, label_names, mean_values, num_voxels>>

\* the state of the table functions
tableVars == <<roi_names, ref_value, result_df, rule, calls>>

\* the state of compute_suvr, extract_suv, get_pet_resource and the drivers
imageVars == <<args, mask_data, mean_value, pet_img, suvr_img, written,
               labels_list, results, ret, atlas_data, frame, opened, step,
               external_ok>>

vars == <<pc, err, df, message, extractVars, tableVars, imageVars>>

(***************************************************************************)
(* Bounds of the model.                                                    *)
(***************************************************************************)
MaxZ == 3

MaxRows == 2

MaxVox == 2

(***************************************************************************)
(* float64 arithmetic as numpy performs it (no exception on division by    *)
(* zero, NaN and inf propagate).                                           *)
(***************************************************************************)
NaN == <<0, 0>>

Abs(n) == IF n < 0 THEN -n ELSE n

Sign(n) == IF n < 0 THEN -1 ELSE IF n > 0 THEN 1 ELSE 0

RECURSIVE GCD(_, _)
GCD(a, b) == IF b = 0 THEN a ELSE GCD(b, a % b)

\* the float with value n/d (d >= 0); d = 0 gives NaN or a signed infinity
Norm(n, d) ==
    IF d = 0 THEN <<Sign(n), 0>>
    ELSE LET g == GCD(Abs(n), d) IN <<n \div g, d \div g>>

FromInt(n) == <<n, 1>>

IsNaN(a) == a = NaN

IsInf(a) == a[2] = 0 /\ a[1] # 0

IsFinite(a) == a[2] # 0

FAdd(a, b) ==
    IF IsNaN(a) \/ IsNaN(b) THEN NaN
    ELSE IF IsInf(a) THEN (IF IsInf(b) /\ b[1] # a[1] THEN NaN ELSE a)
    ELSE IF IsInf(b) THEN b
    ELSE Norm(a[1] * b[2] + b[1] * a[2], a[2] * b[2])

FMul(a, b) ==
    IF IsNaN(a) \/ IsNaN(b) THEN NaN
    ELSE IF IsInf(a) \/ IsInf(b)
         THEN (IF a[1] = 0 \/ b[1] = 0 THEN NaN ELSE <<Sign(a[1]) * Sign(b[1]), 0>>)
    ELSE Norm(a[1] * b[1], a[2] * b[2])

FDiv(a, b) ==
    IF IsNaN(a) \/ IsNaN(b) THEN NaN
    ELSE IF IsInf(a)
         THEN (IF IsInf(b) THEN NaN
               ELSE <<(IF b[1] < 0 THEN -a[1] ELSE a[1]), 0>>)
    ELSE IF IsInf(b) THEN FromInt(0)
    ELSE IF b[1] = 0 THEN <<Sign(a[1]), 0>>
    ELSE Norm(a[1] * b[2] * Sign(b[1]), a[2] * Abs(b[1]))

RECURSIVE FSum(_)
FSum(s) == IF s = <<>> THEN FromInt(0) ELSE FAdd(Head(s), FSum(Tail(s)))

RECURSIVE ISum(_)
ISum(s) == IF s = <<>> THEN 0 ELSE Head(s) + ISum(Tail(s))

\* np.mean of a 1-D selection: NaN (with a warning) when it is empty
NpMean(vals) == FDiv(FSum(vals), FromInt(Len(vals)))

(***************************************************************************)
(* numpy arrays of shape <<1, 1, Z>>.                                      *)
(***************************************************************************)
Vol(z, d) == [shape |-> <<1, 1, z>>, data |-> d]

ZDim(v) == v.shape[3]

\* numpy broadcasting of two shapes: per axis equal, or one of them is 1
Broadcastable(a, b) == ZDim(a) = ZDim(b) \/ ZDim(a) = 1 \/ ZDim(b) = 1

BroadcastZ(a, b) == IF ZDim(a) >= ZDim(b) THEN ZDim(a) ELSE ZDim(b)

\* element z of v viewed at a broadcast shape
At(v, z) == IF ZDim(v) = 1 THEN v.data[1] ELSE v.data[z]

\* np.logical_and(label_data == label, fov_data == 1), a boolean array of the
\* broadcast shape
FovMask(labels, fov, label) ==
    LET z == BroadcastZ(labels, fov)
    IN Vol(z, [i \in 1..z |-> At(labels, i) = label /\ At(fov, i) = 1])

\* label_data >= 1
FallbackMask(labels) ==
    Vol(ZDim(labels), [i \in 1..ZDim(labels) |-> labels.data[i] >= 1])

\* np.sum(mask)
MaskCount(mask) == Cardinality({i \in 1..ZDim(mask) : mask.data[i]})

\* pet_data[mask] for a boolean mask of pet_data's shape, in index order
RECURSIVE SelectFrom(_, _, _)
SelectFrom(pet, mask, i) ==
    IF i > ZDim(pet) THEN <<>>
    ELSE (IF mask.data[i] THEN <<FromInt(pet.data[i])>> ELSE <<>>)
         \o SelectFrom(pet, mask, i + 1)

BoolIndex(pet, mask) == SelectFrom(pet, mask, 1)

\* np.unique(label_data): the distinct values in ascending order
RECURSIVE SortedSeq(_)
SortedSeq(S) ==
    IF S = {} THEN <<>>
    ELSE LET m == CHOOSE x \in S : \A y \in S : x <= y
         IN <<m>> \o SortedSeq(S \ {m})

NpUnique(v) == SortedSeq({v.data[i] : i \in 1..ZDim(v)})

(***************************************************************************)
(* Strings the code looks up or matches: sequences of characters.          *)
(***************************************************************************)
S_Unknown == <<"U","n","k","n","o","w","n">>

S_Left == <<"L","e","f","t">>

S_Right == <<"R","i","g","h","t">>

S_CerebellumCortex == <<"C","e","r","e","b","e","l","l","u","m","-","C","o","r","t","e","x">>

S_missing == <<"m","i","s","s","i","n","g">>

Dash == <<"-">>

roi_name_1 == S_Left \o Dash \o S_CerebellumCortex

roi_name_2 == S_Right \o Dash \o S_CerebellumCortex

\* The label dictionary (FreeSurferColorLUT): the entries of the FreeSurfer
\* colour table for the label ids the model uses.
FreeSurferColorLUT ==
    (0 :> S_Unknown) @@ (8 :> roi_name_1) @@ (47 :> roi_name_2)

\* label_dict.get(str(label), "missing")
LookupName(label) ==
    IF label \in DOMAIN FreeSurferColorLUT THEN FreeSurferColorLUT[label]
    ELSE S_missing

(***************************************************************************)
(* extract_roi_data                                                        *)
(***************************************************************************)
ExcludeLabel == 99999

\* int(label): the label volume holds integer identifiers, on which the
\* conversion from float is exact
PyInt(x) == x

\* a wrong sentinel test: skips the background label instead of 99999
IsRegion_SkipsZero(label) == label # 0

\* the test of line 57 that admits a label to the loop body
IsRegion(label) == label # ExcludeLabel

\* line 59
RoiMask(labels, fov, label) == FovMask(labels, fov, label)

\* lines 62-67: the mask the PET values are read under
FinalMask(labels, fov, label) ==
    IF MaskCount(RoiMask(labels, fov, label)) = 0 THEN FallbackMask(labels)
    ELSE RoiMask(labels, fov, label)

\* line 62 / line 79: the count that is appended to num_voxels
ReportedCount(labels, fov, label) == MaskCount(RoiMask(labels, fov, label))

\* lines 70-73
RoiMean(labels, pet, fov, label) ==
    NpMean(BoolIndex(pet, FinalMask(labels, fov, label)))

\* the exception the loop body raises for this label, "none" if it completes
BodyError(labels, pet, fov, label) ==
    IF ~Broadcastable(labels, fov) THEN "ValueError"
    ELSE IF FinalMask(labels, fov, label).shape # pet.shape THEN "IndexError"
    ELSE "none"

\* lines 85-92: the DataFrame built from the four lists
MakeFrame(ids, names, means, voxels) ==
    [i \in 1..Len(ids) |->
        [Structure_ID |-> ids[i], Structure_Name |-> names[i],
         Mean_Signal |-> means[i], NVoxels |-> voxels[i]]]

NoVol == Vol(1, <<0>>)

\* the variables of the image functions while none of them runs
NoImageCall ==
    /\ args = <<>>
    /\ mask_data = <<>>
    /\ mean_value = NaN
    /\ pet_img = <<>>
    /\ suvr_img = <<>>
    /\ written = {}
    /\ labels_list = <<>>
    /\ results = <<>>
    /\ ret = <<>>
    /\ step = 0
    /\ atlas_data = NoVol
    /\ frame = <<>>
    /\ opened = {}
    /\ external_ok = <<>>

LabelVals == {0, 8, ExcludeLabel, 100000}

PetVals == {1, 3}

FovVals == {0, 1}

Volumes(vals) ==
    UNION {{Vol(z, d) : d \in [1..z -> vals]} : z \in 1..MaxZ}

InitExtract ==
    /\ pc = "load"
    /\ err = "none"
    /\ files_ok \in BOOLEAN
    /\ IF files_ok
       THEN /\ label_data \in Volumes(LabelVals)
            /\ pet_data \in Volumes(PetVals)
            /\ fov_data \in Volumes(FovVals)
       ELSE /\ label_data = NoVol
            /\ pet_data = NoVol
            /\ fov_data = NoVol
    /\ label_ids = <<>>
    /\ roi_label_id = <<>>
    /\ label_names = <<>>
    /\ mean_values = <<>>
    /\ num_voxels = <<>>
    /\ df = <<>>
    /\ roi_names = <<>>
    /\ ref_value = NaN
    /\ result_df = <<>>
    /\ rule = 1
    /\ calls = 0
    /\ message = <<>>
    /\ NoImageCall

\* lines 27-45: load the three images, exit(1) if one cannot be loaded
LoadImages ==
    /\ pc = "load"
    /\ IF files_ok
       THEN /\ label_ids' = NpUnique(label_data)
            /\ pc' = "loop"
            /\ err' = err
       ELSE /\ label_ids' = label_ids
            /\ pc' = "exit"
            /\ err' = "SystemExit"
    /\ UNCHANGED <<files_ok, label_data, pet_data, fov_data, roi_label_id,
                   label_names, mean_values, num_voxels, df, tableVars>>
    /\ UNCHANGED <<message, imageVars>>

\* lines 55-82: one iteration of the loop over label_ids
ExtractLabel ==
    /\ pc = "loop"
    /\ label_ids # <<>>
    /\ LET label == PyInt(Head(label_ids))
       IN IF ~IsRegion(label)
          THEN /\ label_ids' = Tail(label_ids)
               /\ UNCHANGED <<pc, err, roi_label_id, label_names, mean_values,
                              num_voxels>>
          ELSE IF BodyError(label_data, pet_data, fov_data, label) # "none"
          THEN /\ err' = BodyError(label_data, pet_data, fov_data, label)
               /\ pc' = "raised"
               /\ UNCHANGED <<label_ids, roi_label_id, label_names,
                              mean_values, num_voxels>>
          ELSE /\ roi_label_id' = Append(roi_label_id, label)
               /\ mean_values' =
                      Append(mean_values,
                             RoiMean(label_data, pet_data, fov_data, label))
               /\ num_voxels' =
                      Append(num_voxels,
                             ReportedCount(label_data, fov_data, label))
               /\ label_names' = Append(label_names, LookupName(label))
               /\ label_ids' = Tail(label_ids)
               /\ UNCHANGED <<pc, err>>
    /\ UNCHANGED <<files_ok, label_data, pet_data, fov_data, df, tableVars>>
    /\ UNCHANGED <<message, imageVars>>

\* lines 85-94: build the DataFrame and return it
ReturnFrame ==
    /\ pc = "loop"
    /\ label_ids = <<>>
    /\ df' = MakeFrame(roi_label_id, label_names, mean_values, num_voxels)
    /\ pc' = "returned"
    /\ UNCHANGED <<err, extractVars, tableVars>>
    /\ UNCHANGED <<message, imageVars>>

NextExtract == LoadImages \/ ExtractLabel \/ ReturnFrame

SpecExtract == InitExtract /\ [][NextExtract]_vars

(***************************************************************************)
(* Names of the ROI specification and string matching.                     *)
(***************************************************************************)
S_ctx == <<"c","t","x">>

S_wm == <<"w","m">>

S_cuneus == <<"c","u","n","e","u","s">>

S_lateralorbitofrontal == <<"l","a","t","e","r","a","l","o","r","b","i","t","o","f","r","o","n","t","a","l">>

S_lingual == <<"l","i","n","g","u","a","l">>

S_medialorbitofrontal == <<"m","e","d","i","a","l","o","r","b","i","t","o","f","r","o","n","t","a","l">>

S_middletemporal == <<"m","i","d","d","l","e","t","e","m","p","o","r","a","l">>

S_precuneus == <<"p","r","e","c","u","n","e","u","s">>

S_rostralmiddlefrontal == <<"r","o","s","t","r","a","l","m","i","d","d","l","e","f","r","o","n","t","a","l">>

S_superiorfrontal == <<"s","u","p","e","r","i","o","r","f","r","o","n","t","a","l">>

S_superiortemporal == <<"s","u","p","e","r","i","o","r","t","e","m","p","o","r","a","l">>

S_GR_FS == <<"G","R","_","F","S">>

S_TEMP_FS == <<"T","E","M","P","_","F","S">>

S_OCC_FS == <<"O","C","C","_","F","S">>

S_PREF_FS == <<"P","R","E","F","_","F","S">>

S_MC == <<"M","C">>

\* str.lower on one character: the ASCII capitals and their lower-case forms
Capitals ==
    <<"A","B","C","D","E","F","G","H","I","J","K","L","M","N","O","P","Q","R","S","T","U","V","W","X","Y","Z">>

Smalls ==
    <<"a","b","c","d","e","f","g","h","i","j","k","l","m","n","o","p","q","r","s","t","u","v","w","x","y","z">>

CapitalSet == {Capitals[k] : k \in 1..26}

LowerMap == [c \in CapitalSet |-> Smalls[CHOOSE k \in 1..26 : Capitals[k] = c]]

LowerChar(c) == IF c \in CapitalSet THEN LowerMap[c] ELSE c

Lower(s) == [i \in 1..Len(s) |-> LowerChar(s[i])]

\* re.search of a literal pattern with re.IGNORECASE: pat occurs in s
Contains(s, pat) ==
    LET ls == Lower(s)
        lp == Lower(pat)
    IN \E i \in 1..(Len(ls) - Len(lp) + 1) :
           SubSeq(ls, i, i + Len(lp) - 1) = lp

\* re.search of rf"{case}-[lr]h-{roi_name}" with re.IGNORECASE
HemiContains(s, case, roi_name) ==
    \E h \in {"l", "r"} :
        Contains(s, case \o Dash \o <<h, "h">> \o Dash \o roi_name)

Range(s) == {s[i] : i \in 1..Len(s)}

\* pandas Series.sum (also reached through np.sum of a Series): NaN entries
\* are skipped (skipna=True)
RECURSIVE SeriesSum(_)
SeriesSum(s) ==
    IF s = <<>> THEN FromInt(0)
    ELSE IF IsNaN(Head(s)) THEN SeriesSum(Tail(s))
    ELSE FAdd(Head(s), SeriesSum(Tail(s)))

Column(t, f) == [i \in 1..Len(t) |-> t[i][f]]

\* the Series NVoxels * <column f>
Weighted(t, f) == [i \in 1..Len(t) |-> FMul(FromInt(t[i].NVoxels), t[i][f])]

(***************************************************************************)
(* calculate_composite_suvr_and_signal(roi_names, composite_name, df)      *)
(***************************************************************************)
\* line 110: df[df["Structure_Name"].isin(roi_names)]
Filtered(names, t) ==
    SelectSeq(t, LAMBDA r : r.Structure_Name \in Range(names))

\* line 120
TotalVoxels(names, t) == ISum(Column(Filtered(names, t), "NVoxels"))

\* lines 111-114 and 122-125: the ValueError the call raises, "none" if none
CompositeError(names, t) ==
    IF Filtered(names, t) = <<>> THEN "ValueError: no matching ROIs"
    ELSE IF TotalVoxels(names, t) = 0 THEN "ValueError: total voxel count is zero"
    ELSE "none"

\* a plain average of the column, ignoring the voxel counts
WeightedAverage_Unweighted(names, t, f) ==
    FDiv(SeriesSum(Column(Filtered(names, t), f)),
         FromInt(Len(Filtered(names, t))))

\* lines 116-119 and 127-128: sum(NVoxels * column) / total_voxels
WeightedAverage(names, t, f) ==
    FDiv(SeriesSum(Weighted(Filtered(names, t), f)),
         FromInt(TotalVoxels(names, t)))

\* lines 130-137
CompositeRow(names, composite_name, t) ==
    [Structure_Name |-> composite_name,
     Mean_Signal |-> WeightedAverage(names, t, "Mean_Signal"),
     NVoxels |-> TotalVoxels(names, t),
     SUVR |-> WeightedAverage(names, t, "SUVR")]

\* line 138: pd.concat([df, new_row], ignore_index=True)
CompositeTable(names, composite_name, t) ==
    Append(t, CompositeRow(names, composite_name, t))

CtxName(roi_name) == S_ctx \o Dash \o roi_name

\* the arguments of a direct call: tables of up to MaxRows rows over three
\* row names, and two constituent lists
CallNames == {CtxName(S_cuneus), CtxName(S_lingual), CtxName(S_precuneus)}

CallLists ==
    {<<CtxName(S_cuneus), CtxName(S_lingual)>>,
     <<CtxName(S_cuneus), CtxName(S_lingual), CtxName(S_precuneus)>>}

MeanVals == {FromInt(1), FromInt(3)}

SuvrVals == {<<1, 2>>, FromInt(2), NaN}

VoxelCounts == {0, 1, MaxVox}

CallRows ==
    [Structure_Name : CallNames, Mean_Signal : MeanVals,
     NVoxels : VoxelCounts, SUVR : SuvrVals]

CallTables == UNION {[1..n -> CallRows] : n \in 0..MaxRows}

InitComposite ==
    /\ pc = "composite"
    /\ err = "none"
    /\ df \in CallTables
    /\ roi_names \in CallLists
    /\ result_df = <<>>
    /\ ref_value = NaN
    /\ rule = 1
    /\ calls = 0
    /\ files_ok = FALSE
    /\ label_data = NoVol
    /\ pet_data = NoVol
    /\ fov_data = NoVol
    /\ label_ids = <<>>
    /\ roi_label_id = <<>>
    /\ label_names = <<>>
    /\ mean_values = <<>>
    /\ num_voxels = <<>>
    /\ message = <<>>
    /\ NoImageCall

\* lines 109-141: one call with composite_name = "OCC_FS"
CallComposite ==
    /\ pc = "composite"
    /\ IF CompositeError(roi_names, df) # "none"
       THEN /\ err' = CompositeError(roi_names, df)
            /\ pc' = "raised"
            /\ result_df' = result_df
       ELSE /\ result_df' = CompositeTable(roi_names, S_OCC_FS, df)
            /\ pc' = "returned"
            /\ err' = err
    /\ UNCHANGED <<df, roi_names, ref_value, rule, calls, extractVars>>
    /\ UNCHANGED <<message, imageVars>>

NextComposite == CallComposite

SpecComposite == InitComposite /\ [][NextComposite]_vars

(***************************************************************************)
(* calculate_suvrlr(df)                                                    *)
(***************************************************************************)
\* df[cond].<column>.values[0]: the first row satisfying a condition
FirstIndex(t, P(_)) == CHOOSE i \in 1..Len(t) : P(t[i]) /\ \A j \in 1..(i - 1) : ~P(t[j])

HasName(t, name) == \E i \in 1..Len(t) : t[i].Structure_Name = name

\* lines 159-166: the IndexError branch
ReferenceMissing(t) == ~HasName(t, roi_name_1) \/ ~HasName(t, roi_name_2)

\* lines 160-161: Structure_ID of the first row with the name
LabelOfName(t, name) ==
    LET Named(r) == r.Structure_Name = name
    IN t[FirstIndex(t, Named)].Structure_ID

\* lines 169-176: the first row with the Structure_ID
RowOfLabel(t, id) ==
    LET Labelled(r) == r.Structure_ID = id
    IN t[FirstIndex(t, Labelled)]

\* a diagnostic that names the first reference region only
MissingDiagnostic_FirstOnly == <<roi_name_1>>

\* lines 163-165: the names the printed diagnostic lists
MissingDiagnostic == <<roi_name_1, roi_name_2>>

\* a reference value that weights both means by the first voxel count
WeightedReference_FirstCount(mean_1, voxels_1, mean_2, voxels_2) ==
    FDiv(FAdd(FMul(mean_1, FromInt(voxels_1)), FMul(mean_2, FromInt(voxels_1))),
         FromInt(voxels_1 + voxels_2))

\* line 179
WeightedReference(mean_1, voxels_1, mean_2, voxels_2) ==
    FDiv(FAdd(FMul(mean_1, FromInt(voxels_1)), FMul(mean_2, FromInt(voxels_2))),
         FromInt(voxels_1 + voxels_2))

\* lines 168-179
RefValue(t) ==
    LET roi_1_row == RowOfLabel(t, LabelOfName(t, roi_name_1))
        roi_2_row == RowOfLabel(t, LabelOfName(t, roi_name_2))
    IN WeightedReference(roi_1_row.Mean_Signal, roi_1_row.NVoxels,
                         roi_2_row.Mean_Signal, roi_2_row.NVoxels)

\* line 182: df["SUVR"] = df["Mean_Signal"] / ref_value (sets or replaces the
\* column, in place)
WithSuvr(t, ref) ==
    [i \in 1..Len(t) |->
        [Structure_ID |-> t[i].Structure_ID,
         Structure_Name |-> t[i].Structure_Name,
         Mean_Signal |-> t[i].Mean_Signal,
         NVoxels |-> t[i].NVoxels,
         SUVR |-> FDiv(t[i].Mean_Signal, ref)]]

\* the tables extract_roi_data can hand over: ascending distinct label ids,
\* names from the dictionary
RefMeans == {FromInt(0), FromInt(1), FromInt(3)}

StatRows(id) ==
    [Structure_ID : {id}, Structure_Name : {LookupName(id)},
     Mean_Signal : RefMeans, NVoxels : VoxelCounts]

\* zero or one row of label id
OptionalRow(id) == {<<>>} \cup {<<r>> : r \in StatRows(id)}

StatTables ==
    {a \o b \o c :
        a \in {<<>>, <<[Structure_ID |-> 0, Structure_Name |-> LookupName(0),
                        Mean_Signal |-> FromInt(1), NVoxels |-> 1]>>},
        b \in OptionalRow(8), c \in OptionalRow(47)}

InitRef ==
    /\ pc = "suvrlr"
    /\ err = "none"
    /\ df \in StatTables
    /\ roi_names = <<>>
    /\ result_df = <<>>
    /\ ref_value = NaN
    /\ rule = 1
    /\ calls = 0
    /\ files_ok = FALSE
    /\ label_data = NoVol
    /\ pet_data = NoVol
    /\ fov_data = NoVol
    /\ label_ids = <<>>
    /\ roi_label_id = <<>>
    /\ label_names = <<>>
    /\ mean_values = <<>>
    /\ num_voxels = <<>>
    /\ message = <<>>
    /\ NoImageCall

\* lines 155-184: a call of calculate_suvrlr on df (the first, or a further
\* one on the table the previous call returned)
CallSuvrlr ==
    /\ pc \in {"suvrlr", "returned"}
    /\ calls < 2
    /\ IF ReferenceMissing(df)
       THEN /\ pc' = "exit"
            /\ err' = "SystemExit"
            /\ message' = MissingDiagnostic
            /\ UNCHANGED <<df, ref_value, calls>>
       ELSE /\ ref_value' = RefValue(df)
            /\ df' = WithSuvr(df, RefValue(df))
            /\ calls' = calls + 1
            /\ pc' = "returned"
            /\ err' = err
            /\ message' = message
    /\ UNCHANGED <<roi_names, result_df, rule, extractVars>>
    /\ UNCHANGED imageVars

NextRef == CallSuvrlr

SpecRef == InitRef /\ [][NextRef]_vars

(***************************************************************************)
(* calculate_suvr(df, ref_value)                                           *)
(***************************************************************************)
\* The ROI specification (FreeSurferColorLUT.ROIs): an ordered mapping from
\* ROI name to group marker; marker 4 marks the cortical ROIs that are split
\* into a ctx- and a wm- row.  The entries the composite rules refer to, and
\* one ROI matched directly.
ROIs ==
    << [name |-> S_CerebellumCortex, group |-> 1],
       [name |-> S_cuneus, group |-> 4],
       [name |-> S_lateralorbitofrontal, group |-> 4],
       [name |-> S_lingual, group |-> 4],
       [name |-> S_medialorbitofrontal, group |-> 4],
       [name |-> S_middletemporal, group |-> 4],
       [name |-> S_precuneus, group |-> 4],
       [name |-> S_rostralmiddlefrontal, group |-> 4],
       [name |-> S_superiorfrontal, group |-> 4],
       [name |-> S_superiortemporal, group |-> 4] >>

SplitGroup == 4

\* line 241
cases == <<S_ctx, S_wm>>

\* lines 214-216
MatchDirect(t, roi_name) ==
    SelectSeq(t, LAMBDA r : Contains(r.Structure_Name, roi_name))

\* a match of the left hemisphere only
MatchSplit_LeftOnly(t, case, roi_name) ==
    SelectSeq(t, LAMBDA r : Contains(r.Structure_Name,
                                     case \o Dash \o <<"l", "h">> \o Dash \o roi_name))

\* lines 244-248
MatchSplit(t, case, roi_name) ==
    SelectSeq(t, LAMBDA r : HemiContains(r.Structure_Name, case, roi_name))

\* lines 218-239 (and 250-271): the row appended for one name
CombinedRow(name, matching_rows, ref) ==
    IF matching_rows = <<>>
    THEN [Structure_Name |-> name, Mean_Signal |-> FromInt(0), NVoxels |-> 0,
          SUVR |-> FromInt(0)]
    ELSE LET total_voxels == ISum(Column(matching_rows, "NVoxels"))
             weighted_mean ==
                 FDiv(SeriesSum(Weighted(matching_rows, "Mean_Signal")),
                      FromInt(total_voxels))
         IN [Structure_Name |-> name, Mean_Signal |-> weighted_mean,
             NVoxels |-> total_voxels, SUVR |-> FDiv(weighted_mean, ref)]

\* a loop body that drops the ROIs that match no row
RowsOfRoi_DropsEmpty(t, roi, ref) ==
    IF roi.group # SplitGroup
    THEN (IF MatchDirect(t, roi.name) = <<>> THEN <<>>
          ELSE <<CombinedRow(roi.name, MatchDirect(t, roi.name), ref)>>)
    ELSE (IF MatchSplit(t, cases[1], roi.name) = <<>> THEN <<>>
          ELSE <<CombinedRow(cases[1] \o Dash \o roi.name,
                             MatchSplit(t, cases[1], roi.name), ref)>>)
         \o (IF MatchSplit(t, cases[2], roi.name) = <<>> THEN <<>>
             ELSE <<CombinedRow(cases[2] \o Dash \o roi.name,
                                MatchSplit(t, cases[2], roi.name), ref)>>)

\* lines 211-271: the rows one iteration of the loop over ROIs appends
RowsOfRoi(t, roi, ref) ==
    IF roi.group # SplitGroup
    THEN <<CombinedRow(roi.name, MatchDirect(t, roi.name), ref)>>
    ELSE [c \in 1..Len(cases) |->
             CombinedRow(cases[c] \o Dash \o roi.name,
                         MatchSplit(t, cases[c], roi.name), ref)]

\* lines 211-281: result_df after the loop
RECURSIVE NamedRows(_, _, _)
NamedRows(t, rois, ref) ==
    IF rois = <<>> THEN <<>>
    ELSE RowsOfRoi(t, Head(rois), ref) \o NamedRows(t, Tail(rois), ref)

\* composite rules in which MC is computed before PREF_FS
CompositeRules_McBeforePref ==
    << [inputs |-> <<CtxName(S_lateralorbitofrontal), CtxName(S_medialorbitofrontal)>>,
        output |-> S_GR_FS],
       [inputs |-> <<CtxName(S_middletemporal), CtxName(S_superiortemporal)>>,
        output |-> S_TEMP_FS],
       [inputs |-> <<CtxName(S_cuneus), CtxName(S_lingual)>>,
        output |-> S_OCC_FS],
       [inputs |-> <<S_GR_FS, S_TEMP_FS, S_OCC_FS, S_PREF_FS, CtxName(S_precuneus)>>,
        output |-> S_MC],
       [inputs |-> <<CtxName(S_rostralmiddlefrontal), CtxName(S_superiorfrontal)>>,
        output |-> S_PREF_FS] >>

\* lines 283-306: the five composite calls, in program order
CompositeRules ==
    << [inputs |-> <<CtxName(S_lateralorbitofrontal), CtxName(S_medialorbitofrontal)>>,
        output |-> S_GR_FS],
       [inputs |-> <<CtxName(S_middletemporal), CtxName(S_superiortemporal)>>,
        output |-> S_TEMP_FS],
       [inputs |-> <<CtxName(S_cuneus), CtxName(S_lingual)>>,
        output |-> S_OCC_FS],
       [inputs |-> <<CtxName(S_rostralmiddlefrontal), CtxName(S_superiorfrontal)>>,
        output |-> S_PREF_FS],
       [inputs |-> <<S_GR_FS, S_TEMP_FS, S_OCC_FS, S_PREF_FS, CtxName(S_precuneus)>>,
        output |-> S_MC] >>

\* input tables: per pair of constituents one of four patterns of rows
StatRow(name, mean, voxels) ==
    [Structure_Name |-> name, Mean_Signal |-> mean, NVoxels |-> voxels]

HemiName(case, hemi, roi_name) ==
    case \o Dash \o <<hemi, "h">> \o Dash \o roi_name

PairPatterns == {"none", "first", "both", "empty"}

PairRows(pattern, a, b, m) ==
    CASE pattern = "none" -> <<>>
      [] pattern = "first" -> <<StatRow(HemiName(S_ctx, "l", a), m, 1)>>
      [] pattern = "both" ->
            <<StatRow(HemiName(S_ctx, "l", a), m, 1),
              StatRow(HemiName(S_ctx, "r", a), FromInt(2), MaxVox),
              StatRow(HemiName(S_ctx, "l", b), FromInt(2), 1),
              StatRow(HemiName(S_wm, "l", a), m, 1)>>
      [] pattern = "empty" ->
            <<StatRow(HemiName(S_ctx, "l", a), m, 0),
              StatRow(HemiName(S_ctx, "r", b), FromInt(2), 0)>>

RefVals == {FromInt(2), FromInt(0)}

\* in_fov = FALSE: the cerebellum lies outside the field of view, and
\* extract_roi_data reports its two rows with NVoxels = 0 (lines 64-66)
SuvrTable(p, q, m, in_fov) ==
    <<StatRow(roi_name_1, m, IF in_fov THEN 1 ELSE 0),
      StatRow(roi_name_2, FromInt(2), IF in_fov THEN MaxVox ELSE 0)>>
    \o PairRows(p[1], S_lateralorbitofrontal, S_medialorbitofrontal, m)
    \o PairRows(p[2], S_middletemporal, S_superiortemporal, m)
    \o PairRows(p[3], S_cuneus, S_lingual, m)
    \o PairRows(p[4], S_rostralmiddlefrontal, S_superiorfrontal, m)
    \o (IF q THEN <<StatRow(HemiName(S_ctx, "r", S_precuneus), m, MaxVox)>>
        ELSE <<>>)

InitSuvr ==
    /\ pc = "named"
    /\ err = "none"
    /\ \E p \in [1..4 -> PairPatterns], q \in BOOLEAN, m \in MeanVals,
          in_fov \in BOOLEAN :
           df = SuvrTable(p, q, m, in_fov)
    /\ ref_value \in RefVals
    /\ roi_names = <<>>
    /\ result_df = <<>>
    /\ rule = 1
    /\ calls = 0
    /\ files_ok = FALSE
    /\ label_data = NoVol
    /\ pet_data = NoVol
    /\ fov_data = NoVol
    /\ label_ids = <<>>
    /\ roi_label_id = <<>>
    /\ label_names = <<>>
    /\ mean_values = <<>>
    /\ num_voxels = <<>>
    /\ message = <<>>
    /\ NoImageCall

\* lines 199-281: the loop over the ROI specification
ComputeNamedRois ==
    /\ pc = "named"
    /\ result_df' = NamedRows(df, ROIs, ref_value)
    /\ pc' = "rules"
    /\ UNCHANGED <<err, df, roi_names, ref_value, rule, calls, extractVars>>
    /\ UNCHANGED <<message, imageVars>>

\* lines 283-306: the next composite call
ApplyRule ==
    /\ pc = "rules"
    /\ rule <= Len(CompositeRules)
    /\ LET r == CompositeRules[rule]
       IN IF CompositeError(r.inputs, result_df) # "none"
          THEN /\ err' = CompositeError(r.inputs, result_df)
               /\ pc' = "raised"
               /\ UNCHANGED <<result_df, rule>>
          ELSE /\ result_df' = CompositeTable(r.inputs, r.output, result_df)
               /\ rule' = rule + 1
               /\ UNCHANGED <<pc, err>>
    /\ UNCHANGED <<df, roi_names, ref_value, calls, extractVars>>
    /\ UNCHANGED <<message, imageVars>>

\* line 308
ReturnSuvr ==
    /\ pc = "rules"
    /\ rule > Len(CompositeRules)
    /\ pc' = "returned"
    /\ UNCHANGED <<err, df, tableVars, extractVars>>
    /\ UNCHANGED <<message, imageVars>>

NextSuvr == ComputeNamedRois \/ ApplyRule \/ ReturnSuvr

SpecSuvr == InitSuvr /\ [][NextSuvr]_vars

(***************************************************************************)
(* Properties of extract_roi_data.                                         *)
(***************************************************************************)
SameShapes ==
    label_data.shape = pet_data.shape /\ fov_data.shape = label_data.shape

\* the voxels that carry label id
LabelVoxels(id) == {i \in 1..ZDim(label_data) : label_data.data[i] = id}

\* the voxels that carry label id and lie inside the field of view
InFovVoxels(id) == {i \in LabelVoxels(id) : fov_data.data[i] = 1}

LabelsPresent == {label_data.data[i] : i \in 1..ZDim(label_data)}

\* the mean of the PET intensities over a set of voxels, in index order
MeanOver(S) ==
    NpMean([k \in 1..Cardinality(S) |->
               FromInt(pet_data.data[SortedSeq(S)[k]])])

\* C1: in the returned table, every row of a label whose voxels all lie
\* outside the FOV has NVoxels equal to the number of voxels carrying that
\* label in the unrestricted label volume.
C1_FallbackCount ==
    (pc = "returned" /\ SameShapes) =>
        \A i \in 1..Len(df) :
            InFovVoxels(df[i].Structure_ID) = {} =>
                df[i].NVoxels = Cardinality(LabelVoxels(df[i].Structure_ID))

\* C2: in the returned table, the Mean_Signal of a label whose FOV-restricted
\* mask is empty is the mean of the PET intensities over exactly the voxels
\* carrying that label.
C2_FallbackMean ==
    (pc = "returned" /\ SameShapes) =>
        \A i \in 1..Len(df) :
            InFovVoxels(df[i].Structure_ID) = {} =>
                df[i].Mean_Signal = MeanOver(LabelVoxels(df[i].Structure_ID))

C7_ShapeMismatchFails ==
    (files_ok /\ ~SameShapes) => (pc # "returned" /\ roi_label_id = <<>>)

(***************************************************************************)
(* Properties of calculate_composite_suvr_and_signal.                      *)
(***************************************************************************)
TableNames(t) == {t[i].Structure_Name : i \in 1..Len(t)}

\* the constituent rows of the call, as a set of row indices of df
Constituents == {i \in 1..Len(df) : df[i].Structure_Name \in Range(roi_names)}

ConstituentSeq == SortedSeq(Constituents)

ConstituentVoxels ==
    FSum([k \in 1..Len(ConstituentSeq) |->
             FromInt(df[ConstituentSeq[k]].NVoxels)])

\* sum(NVoxels * column f) over the constituent rows
ConstituentWeighted(f) ==
    FSum([k \in 1..Len(ConstituentSeq) |->
             FMul(FromInt(df[ConstituentSeq[k]].NVoxels),
                  df[ConstituentSeq[k]][f])])

\* C4: a call in which at least one constituent name is absent from the table
\* fails and appends no composite row.
C4_MissingConstituentFails ==
    (pc \in {"returned", "raised"} /\ ~(Range(roi_names) \subseteq TableNames(df)))
        => (pc = "raised" /\ result_df = <<>>)

\* C8: when every constituent is present with a positive combined voxel count
\* the call appends one row whose NVoxels is the constituents' sum and whose
\* Mean_Signal and SUVR are the voxel-weighted averages of the constituents'
\* (for constituents whose values are numbers), leaving the existing rows
\* unchanged; when the combined voxel count is zero it raises instead.
C8_CompositeWeightedAverage ==
    /\ (pc = "returned" /\ Range(roi_names) \subseteq TableNames(df)) =>
          LET new == result_df[Len(result_df)]
          IN /\ Len(result_df) = Len(df) + 1
             /\ SubSeq(result_df, 1, Len(df)) = df
             /\ FromInt(new.NVoxels) = ConstituentVoxels
             /\ new.NVoxels > 0
             /\ FMul(new.Mean_Signal, ConstituentVoxels)
                    = ConstituentWeighted("Mean_Signal")
             /\ (\A i \in Constituents : ~IsNaN(df[i].SUVR)) =>
                    FMul(new.SUVR, ConstituentVoxels)
                        = ConstituentWeighted("SUVR")
    /\ (pc \in {"returned", "raised"} /\ ConstituentVoxels = FromInt(0))
          => (pc = "raised" /\ result_df = <<>>)
    /\ (pc = "raised") => ConstituentVoxels = FromInt(0)

\* C8 witness: two constituents with different voxel counts and different
\* numeric SUVR values have been combined.
C8_Witness ==
    /\ pc = "returned"
    /\ Len(df) = 2
    /\ Range(roi_names) \subseteq TableNames(df)
    /\ df[1].NVoxels = 1 /\ df[2].NVoxels = 2
    /\ df[1].SUVR = <<1, 2>> /\ df[2].SUVR = FromInt(2)
    /\ df[1].Mean_Signal # df[2].Mean_Signal
    /\ result_df[3].SUVR = <<3, 2>>

\* C11: when the table lacks a row Left-Cerebellum-Cortex or a row
\* Right-Cerebellum-Cortex, calculate_suvrlr does not return: it exits with a
\* diagnostic listing both names, no reference value is returned and no row
\* of the table has an SUVR column.
C11_ReferenceNotFoundExits ==
    /\ ReferenceMissing(df) => pc \in {"suvrlr", "exit"}
    /\ pc = "exit" =>
           /\ ReferenceMissing(df)
           /\ err = "SystemExit"
           /\ message = <<roi_name_1, roi_name_2>>
           /\ calls = 0
           /\ ref_value = NaN
           /\ \A i \in 1..Len(df) : "SUVR" \notin DOMAIN df[i]

\* C11 witness: the run has exited on a table that has the left reference row
\* but not the right one.
C11_Witness ==
    /\ pc = "exit"
    /\ HasName(df, roi_name_1)
    /\ ~HasName(df, roi_name_2)
    /\ Len(df) = 2

(***************************************************************************)
(* Properties of calculate_suvrlr.                                         *)
(***************************************************************************)
LeftRow == RowOfLabel(df, LabelOfName(df, roi_name_1))

RightRow == RowOfLabel(df, LabelOfName(df, roi_name_2))

\* df with the statistics of the two reference rows exchanged
SwapLR(t) ==
    [i \in 1..Len(t) |->
        IF t[i].Structure_Name = roi_name_1
        THEN [t[i] EXCEPT !.Mean_Signal = RightRow.Mean_Signal,
                          !.NVoxels = RightRow.NVoxels]
        ELSE IF t[i].Structure_Name = roi_name_2
        THEN [t[i] EXCEPT !.Mean_Signal = LeftRow.Mean_Signal,
                          !.NVoxels = LeftRow.NVoxels]
        ELSE t[i]]

\* C6: calculate_suvrlr never returns when both reference rows have zero
\* voxels or when the reference value is exactly zero.
C6_ZeroReferenceFails ==
    pc = "returned" =>
        /\ LeftRow.NVoxels + RightRow.NVoxels # 0
        /\ ref_value # FromInt(0)

\* C10: for a table with both reference rows and a positive combined voxel
\* count, the returned reference value is the one obtained with the left and
\* right reference rows exchanged, and a further call on the returned table
\* returns the same reference value and the same table (SUVR column).
C10_SwapAndIdempotent ==
    /\ [](pc = "returned" /\ LeftRow.NVoxels + RightRow.NVoxels > 0
            => ref_value = RefValue(SwapLR(df)))
    /\ [][pc = "returned" /\ LeftRow.NVoxels + RightRow.NVoxels > 0
            => (ref_value' = ref_value /\ df' = df)]_vars

\* C10 witness: a second call has returned on a table whose reference rows
\* differ in mean and in voxel count.
C10_Witness ==
    /\ pc = "returned"
    /\ calls = 2
    /\ LeftRow.NVoxels = 1 /\ RightRow.NVoxels = MaxVox
    /\ LeftRow.Mean_Signal = FromInt(1) /\ RightRow.Mean_Signal = FromInt(3)
    /\ ref_value = Norm(1 + 3 * MaxVox, 1 + MaxVox)
    /\ df[1].SUVR = FDiv(FromInt(1), ref_value)

(***************************************************************************)
(* Properties of calculate_suvr.                                           *)
(***************************************************************************)
\* the named rows in the order of the ROI specification: for each entry its
\* row name and the rows of df that match it
RECURSIVE EntriesOf(_)
EntriesOf(rois) ==
    IF rois = <<>> THEN <<>>
    ELSE LET roi == Head(rois)
         IN (IF roi.group = 4
             THEN <<[name |-> S_ctx \o Dash \o roi.name,
                     rows |-> {i \in 1..Len(df) :
                                 \E h \in {"l", "r"} :
                                     Contains(df[i].Structure_Name,
                                              HemiName(S_ctx, h, roi.name))}],
                    [name |-> S_wm \o Dash \o roi.name,
                     rows |-> {i \in 1..Len(df) :
                                 \E h \in {"l", "r"} :
                                     Contains(df[i].Structure_Name,
                                              HemiName(S_wm, h, roi.name))}]>>
             ELSE <<[name |-> roi.name,
                     rows |-> {i \in 1..Len(df) :
                                 Contains(df[i].Structure_Name, roi.name)}]>>)
            \o EntriesOf(Tail(rois))

NamedEntries == EntriesOf(ROIs)

\* the names of the composite constituents among the named rows
CompositeConstituents ==
    {CtxName(S_lateralorbitofrontal), CtxName(S_medialorbitofrontal),
     CtxName(S_middletemporal), CtxName(S_superiortemporal),
     CtxName(S_cuneus), CtxName(S_lingual),
     CtxName(S_rostralmiddlefrontal), CtxName(S_superiorfrontal),
     CtxName(S_precuneus)}

ZeroRow(name) ==
    [Structure_Name |-> name, Mean_Signal |-> FromInt(0), NVoxels |-> 0,
     SUVR |-> FromInt(0)]

\* the combined voxel count of the rows of result_df a rule selects
RuleVoxels(j) ==
    LET sel == SortedSeq({i \in 1..Len(result_df) :
                   result_df[i].Structure_Name \in Range(CompositeRules[j].inputs)})
    IN ISum([k \in 1..Len(sel) |-> result_df[sel[k]].NVoxels])

\* C5 as claimed: whenever some named ROI matches no row of the input table,
\* calculate_suvr raises nothing, and the returned table has the zero-valued
\* row of every such ROI.
C5_ZeroMatchNeverFatal ==
    pc \in {"raised", "returned"} =>
        LET ne == NamedEntries
        IN (\E k \in 1..Len(ne) : ne[k].rows = {}) =>
               /\ pc # "raised"
               /\ \A k \in 1..Len(ne) :
                      ne[k].rows = {} => result_df[k] = ZeroRow(ne[k].name)

\* C5 as amended: the loop over the ROI specification raises nothing and gives
\* every ROI that matches no row the row NVoxels = 0, Mean_Signal = 0,
\* SUVR = 0, which stays in the table; calculate_suvr raises only at a
\* composite rule whose selected rows have a combined voxel count of zero, and
\* passes a rule only when that count is positive.
C5_ZeroRowUnlessCompositeEmpty ==
    /\ pc \in {"returned", "raised"} =>
           LET ne == NamedEntries
           IN /\ Len(result_df) >= Len(ne)
              /\ \A k \in 1..Len(ne) :
                     ne[k].rows = {} => result_df[k] = ZeroRow(ne[k].name)
    /\ pc = "raised" => RuleVoxels(rule) = 0
    /\ pc \in {"rules", "returned"} =>
           \A j \in 1..(rule - 1) : RuleVoxels(j) > 0

\* C5 witness: calculate_suvr has returned for a table in which a constituent
\* of a composite matches no row.
C5_Witness ==
    /\ pc = "returned"
    /\ LET ne == NamedEntries
       IN \E k \in 1..Len(ne) :
              /\ ne[k].rows = {}
              /\ ne[k].name \in CompositeConstituents
              /\ result_df[k].NVoxels = 0

\* the names of the named rows, in the order of the ROI specification
RECURSIVE NamesOf(_)
NamesOf(rois) ==
    IF rois = <<>> THEN <<>>
    ELSE (IF Head(rois).group = 4
          THEN <<S_ctx \o Dash \o Head(rois).name,
                 S_wm \o Dash \o Head(rois).name>>
          ELSE <<Head(rois).name>>)
         \o NamesOf(Tail(rois))

NamedNames == NamesOf(ROIs)

RuleOutputs == <<S_GR_FS, S_TEMP_FS, S_OCC_FS, S_PREF_FS, S_MC>>

Occurrences(name) ==
    Cardinality({i \in 1..Len(result_df) : result_df[i].Structure_Name = name})

\* C9: the composite rules run in the order GR_FS, TEMP_FS, OCC_FS, PREF_FS,
\* MC, each after all named ROI rows exist; when the MC rule runs, GR_FS,
\* TEMP_FS, OCC_FS and PREF_FS are each present exactly once; the returned
\* table ends with the five composite rows in that order.
C9_CompositeOrder ==
    pc \in {"rules", "returned"} =>
        LET n == Len(NamedNames)
        IN /\ Len(result_df) = n + rule - 1
           /\ \A k \in 1..n : result_df[k].Structure_Name = NamedNames[k]
           /\ \A j \in 1..(rule - 1) :
                  result_df[n + j].Structure_Name = RuleOutputs[j]
           /\ rule = 5 => \A j \in 1..4 : Occurrences(RuleOutputs[j]) = 1
           /\ pc = "returned" =>
                  /\ Len(result_df) = n + 5
                  /\ [j \in 1..5 |-> result_df[n + j].Structure_Name]
                         = RuleOutputs

\* C9 witness: calculate_suvr has returned a table of 19 named rows and the
\* five composites, MC combining all of its five constituents.
C9_Witness ==
    /\ pc = "returned"
    /\ Len(result_df) = 24
    /\ result_df[24].Structure_Name = S_MC
    /\ result_df[24].NVoxels =
           result_df[20].NVoxels + result_df[21].NVoxels
           + result_df[22].NVoxels + result_df[23].NVoxels + MaxVox

\* the rows of df named <case>-lh-<roi_name> or <case>-rh-<roi_name>
HemiRows(case, roi_name) ==
    {i \in 1..Len(df) :
        df[i].Structure_Name \in {HemiName(case, "l", roi_name),
                                  HemiName(case, "r", roi_name)}}

\* the rows of df whose name contains roi_name, whatever the case
ContainingRows(roi_name) ==
    {i \in 1..Len(df) : Contains(df[i].Structure_Name, roi_name)}

\* row is the voxel-weighted combination of the rows M of df: the voxel
\* counts add up, the mean times the total is the sum of the means times
\* their counts, the SUVR is the mean over the reference value; a zero row
\* when M is empty
CombinesRows(row, M) ==
    LET idx == SortedSeq(M)
        total == ISum([k \in 1..Len(idx) |-> df[idx[k]].NVoxels])
        weighted == FSum([k \in 1..Len(idx) |->
                             FMul(df[idx[k]].Mean_Signal,
                                  FromInt(df[idx[k]].NVoxels))])
    IN /\ row.NVoxels = total
       /\ M = {} => (row.Mean_Signal = FromInt(0) /\ row.SUVR = FromInt(0))
       /\ total > 0 =>
              /\ FMul(row.Mean_Signal, FromInt(total)) = weighted
              /\ row.SUVR = FDiv(row.Mean_Signal, ref_value)

\* the number of rows the ROIs before the r-th one have produced
RowsBefore(r) == Len(NamesOf(SubSeq(ROIs, 1, r - 1)))

\* C16: after the loop over the ROI specification (and in the returned
\* table) every ROI with group marker 4 has exactly two rows, ctx-<ROI> then
\* wm-<ROI>, each combining the rows <prefix>-lh-<ROI> and <prefix>-rh-<ROI>
\* by voxel weight; every other ROI has one row <ROI> combining the rows whose
\* name contains the ROI name; the rows are in the order of the
\* specification.
C16_CortexWhiteMatterSplit ==
    ((pc = "rules" /\ rule = 1) \/ pc = "returned") =>
        /\ Len(result_df) >= RowsBefore(Len(ROIs) + 1)
        /\ \A r \in 1..Len(ROIs) :
               LET b == RowsBefore(r)
               IN IF ROIs[r].group = 4
                  THEN /\ RowsBefore(r + 1) = b + 2
                       /\ result_df[b + 1].Structure_Name
                              = S_ctx \o Dash \o ROIs[r].name
                       /\ result_df[b + 2].Structure_Name
                              = S_wm \o Dash \o ROIs[r].name
                       /\ CombinesRows(result_df[b + 1],
                                       HemiRows(S_ctx, ROIs[r].name))
                       /\ CombinesRows(result_df[b + 2],
                                       HemiRows(S_wm, ROIs[r].name))
                  ELSE /\ RowsBefore(r + 1) = b + 1
                       /\ result_df[b + 1].Structure_Name = ROIs[r].name
                       /\ CombinesRows(result_df[b + 1],
                                       ContainingRows(ROIs[r].name))

\* C16 witness: a returned table whose ctx-lateralorbitofrontal row combines
\* a left row of 1 voxel and a right row of MaxVox voxels with different
\* means, and whose wm-lateralorbitofrontal row has the one wm voxel.
C16_Witness ==
    /\ pc = "returned"
    /\ ref_value = FromInt(2)
    /\ Cardinality(HemiRows(S_ctx, S_lateralorbitofrontal)) = 2
    /\ result_df[4].Structure_Name = S_ctx \o Dash \o S_lateralorbitofrontal
    /\ result_df[4].NVoxels = 1 + MaxVox
    /\ result_df[4].Mean_Signal = Norm(1 + 2 * MaxVox, 1 + MaxVox)
    /\ result_df[5].Structure_Name = S_wm \o Dash \o S_lateralorbitofrontal
    /\ result_df[5].NVoxels = 1

\* C21: in every table returned by calculate_suvr, each named ROI row with
\* NVoxels = 0 has Mean_Signal = 0 and SUVR = 0, and each named ROI row with
\* NVoxels > 0 has a defined Mean_Signal and SUVR = Mean_Signal / ref_value;
\* also when rows match the ROI name and all of them carry NVoxels = 0.
C21_ZeroVoxelRowsZeroValued ==
    pc = "returned" =>
        \A k \in 1..Len(NamedNames) :
            /\ result_df[k].NVoxels = 0 =>
                   /\ result_df[k].Mean_Signal = FromInt(0)
                   /\ result_df[k].SUVR = FromInt(0)
            /\ result_df[k].NVoxels > 0 =>
                   /\ ~IsNaN(result_df[k].Mean_Signal)
                   /\ result_df[k].SUVR
                          = FDiv(result_df[k].Mean_Signal, ref_value)

(***************************************************************************)
(* get_pet_resource(resource) and compute_suvr(pet_image_path, ref_region, *)
(* output_path), called from the command line of suvr_image (three         *)
(* arguments) and from run_pup (lines 94-95: the looked-up reference path  *)
(* and a fourth argument, the normalised FOV).                             *)
(***************************************************************************)
\* utils.py lines 92-110: the three registries
TEMPLATES ==
    [fbp |-> "fbp_mni.nii", pib |-> "pib_mni.nii", nav |-> "nav_mni.nii",
     mk |-> "mk_mni.nii", ftp |-> "ftp_mni.nii"]

ATLASES ==
    [aal |-> <<"aal3v1.nii", "aal3v1.txt">>,
     avid2 |-> <<"avid_2labels.nii", "avid_2labels.txt">>,
     avid7 |-> <<"avid_7labels.nii", "avid_7labels.txt">>,
     npdka |-> <<"npdka_aparc+aseg.nii", "npdka_aparc+aseg.txt">>]

REFERENCE ==
    [cerebellum |-> "avid_cerebellum.nii",
     inf_cerebellum |-> "inferior_cerebellum.nii"]

\* suvr_image.py lines 11-15, and list(REF_REGIONS.keys())
REF_REGIONS == [cerebellum |-> "cerebellum_mask.nii.gz", pons |-> "pons_mask.nii.gz"]

\* utils.py line 143: the message names the key that was asked for
ResourceMessage(resource) == <<resource>>

\* utils.py lines 130-143: the paths returned (one, or an image and a label
\* file), or the ValueError
GetPetResourceResult(resource) ==
    IF resource \in DOMAIN TEMPLATES
    THEN [err |-> "none", ret |-> <<TEMPLATES[resource]>>, message |-> <<>>]
    ELSE IF resource \in DOMAIN ATLASES
    THEN [err |-> "none", ret |-> ATLASES[resource], message |-> <<>>]
    ELSE IF resource \in DOMAIN REFERENCE
    THEN [err |-> "none", ret |-> <<REFERENCE[resource]>>, message |-> <<>>]
    ELSE [err |-> "ValueError", ret |-> <<>>,
          message |-> ResourceMessage(resource)]

\* suvr_image.py lines 54-57: the message names the key and lists the keys
\* of REF_REGIONS
RegionMessage(ref_region) == <<ref_region>> \o <<"cerebellum", "pons">>

\* the parameters of compute_suvr (line 17)
ComputeSuvrParams == <<"pet_image_path", "ref_region", "output_path">>

\* the files on disk before the call
S_PetFile == "norm_msum.nii"

S_FovFile == "norm_petfov.nii"

S_OutputFile == "pet_SUVR.nii"

\* the first CSV table of run_pup, line 100
S_AalCsv == "AAL3v1_SUVR.csv"

ExistingFiles == {S_PetFile, S_FovFile, "aal3v1.nii", "aal3v1.txt"}

IsFile(path) == path \in ExistingFiles \/ \E f \in written : f.path = path

\* voxel values of the PET and of the reference mask
ImagePetVals == {0, 1, 3}

\* line 101: pet_data[mask_data > 0]
MaskedValues(pet, mask) ==
    BoolIndex(pet, Vol(ZDim(mask), [i \in 1..ZDim(mask) |-> mask.data[i] > 0]))

\* a zero test that never holds
ZeroMean_Never(mean) == FALSE

\* line 108: mean_value == 0
ZeroMean(mean) == mean = FromInt(0)

\* a quotient that divides by the sum over the mask instead of its mean
SuvrData_BySum(pet, mean) ==
    [i \in 1..ZDim(pet) |-> FDiv(FromInt(pet.data[i]), FMul(mean, FromInt(ZDim(pet))))]

\* line 114: pet_data / mean_value
SuvrData(pet, mean) == [i \in 1..ZDim(pet) |-> FDiv(FromInt(pet.data[i]), mean)]

\* the keys looked up, the reference regions asked for, the direct calls
RunPupRegions == {"cerebellum", "inf_cerebellum", "pons"}

InitImage ==
    /\ pc \in {"lookup", "run_pup_94", "bind"}
    /\ err = "none"
    /\ message = <<>>
    /\ IF pc = "lookup"
       THEN /\ args \in {<<k>> : k \in (DOMAIN TEMPLATES \cup DOMAIN ATLASES \cup DOMAIN REFERENCE \cup {"pons", "mni"})}
            /\ files_ok = TRUE
            /\ pet_data = NoVol
            /\ mask_data = NoVol
            /\ fov_data = NoVol
       ELSE /\ IF pc = "run_pup_94"
               THEN /\ args \in {<<k>> : k \in RunPupRegions}
                    /\ fov_data \in Volumes(FovVals)
               ELSE /\ args \in {<<f, k, S_OutputFile>> :
                                    f \in {S_PetFile, "absent.nii"},
                                    k \in {"cerebellum", "pons", "inf_cerebellum", "avid_cerebellum.nii"}}
                    /\ fov_data = NoVol
            /\ files_ok \in BOOLEAN
            /\ pet_data \in Volumes(ImagePetVals)
            /\ mask_data \in Volumes({0, 1})
    /\ mean_value = NaN
    /\ pet_img = <<>>
    /\ suvr_img = <<>>
    /\ written = {}
    /\ labels_list = <<>>
    /\ results = <<>>
    /\ ret = <<>>
    /\ step = 0
    /\ atlas_data = NoVol
    /\ frame = <<>>
    /\ opened = {}
    /\ external_ok = <<>>
    /\ df = <<>>
    /\ roi_names = <<>>
    /\ ref_value = NaN
    /\ result_df = <<>>
    /\ rule = 1
    /\ calls = 0
    /\ label_data = NoVol
    /\ label_ids = <<>>
    /\ roi_label_id = <<>>
    /\ label_names = <<>>
    /\ mean_values = <<>>
    /\ num_voxels = <<>>

imageIdle == <<df, tableVars, label_data, label_ids, roi_label_id, label_names,
               mean_values, num_voxels, labels_list, results, files_ok,
               fov_data, atlas_data, frame, opened, step, external_ok>>

\* utils.py lines 112-143, called on its own or at line 94 of run_pup
GetPetResource ==
    /\ pc \in {"lookup", "run_pup_94"}
    /\ LET r == GetPetResourceResult(args[1])
       IN /\ err' = r.err
          /\ ret' = r.ret
          /\ message' = r.message
          /\ pc' = IF r.err # "none" THEN "raised"
                   ELSE IF pc = "lookup" THEN "returned" ELSE "run_pup_95"
    /\ UNCHANGED <<args, pet_data, mask_data, mean_value, pet_img, suvr_img,
                   written, imageIdle>>

\* spm_petproc.py line 95: compute_suvr(unzip_msum_norm, ref_region_path,
\* suvr_img_path, unzip_petfov_norm)
RunPupComputeSuvr ==
    /\ pc = "run_pup_95"
    /\ args' = <<S_PetFile, ret[1], S_OutputFile, S_FovFile>>
    /\ pc' = "bind"
    /\ UNCHANGED <<err, message, ret, pet_data, mask_data, mean_value, pet_img,
                   suvr_img, written, imageIdle>>

\* line 17: the positional arguments are bound to the three parameters
BindArguments ==
    /\ pc = "bind"
    /\ IF Len(args) # Len(ComputeSuvrParams)
       THEN pc' = "raised" /\ err' = "TypeError"
       ELSE pc' = "validate" /\ err' = err
    /\ UNCHANGED <<message, args, ret, pet_data, mask_data, mean_value,
                   pet_img, suvr_img, written, imageIdle>>

\* lines 47-57: the PET file exists, the reference region is a key
ValidateInputs ==
    /\ pc = "validate"
    /\ IF ~IsFile(args[1])
       THEN pc' = "raised" /\ err' = "FileNotFoundError" /\ message' = <<args[1]>>
       ELSE IF args[2] \notin DOMAIN REF_REGIONS
       THEN /\ pc' = "raised"
            /\ err' = "ValueError"
            /\ message' = RegionMessage(args[2])
       ELSE pc' = "load" /\ err' = err /\ message' = message
    /\ UNCHANGED <<args, ret, pet_data, mask_data, mean_value, pet_img,
                   suvr_img, written, imageIdle>>

\* lines 59-98: load the PET and the mask, compare their shapes
LoadVolumes ==
    /\ pc = "load"
    /\ IF ~files_ok
       THEN pc' = "raised" /\ err' = "Exception" /\ pet_img' = pet_img
       ELSE IF pet_data.shape # mask_data.shape
       THEN /\ pc' = "raised"
            /\ err' = "ValueError"
            /\ pet_img' = [affine |-> "pet_affine", header |-> "pet_header"]
       ELSE /\ pc' = "mean"
            /\ err' = err
            /\ pet_img' = [affine |-> "pet_affine", header |-> "pet_header"]
    /\ UNCHANGED <<message, args, ret, pet_data, mask_data, mean_value,
                   suvr_img, written, imageIdle>>

\* lines 100-111: the mean of the PET over the mask
ReferenceMean ==
    /\ pc = "mean"
    /\ LET masked_values == MaskedValues(pet_data, mask_data)
       IN IF Len(masked_values) = 0
          THEN pc' = "raised" /\ err' = "ValueError" /\ mean_value' = mean_value
          ELSE IF ZeroMean(NpMean(masked_values))
          THEN /\ pc' = "raised"
               /\ err' = "ValueError"
               /\ mean_value' = NpMean(masked_values)
          ELSE /\ pc' = "divide"
               /\ err' = err
               /\ mean_value' = NpMean(masked_values)
    /\ UNCHANGED <<message, args, ret, pet_data, mask_data, pet_img, suvr_img,
                   written, imageIdle>>

\* lines 113-126: the quotient image, with the PET's affine and header, saved
\* at output_path
SaveSuvrImage ==
    /\ pc = "divide"
    /\ suvr_img' = [data |-> SuvrData(pet_data, mean_value),
                    affine |-> pet_img.affine, header |-> pet_img.header]
    /\ written' = written \cup {[path |-> args[3], content |-> suvr_img']}
    /\ pc' = "returned"
    /\ UNCHANGED <<err, message, args, ret, pet_data, mask_data, mean_value,
                   pet_img, imageIdle>>

NextImage ==
    \/ GetPetResource
    \/ RunPupComputeSuvr
    \/ BindArguments
    \/ ValidateInputs
    \/ LoadVolumes
    \/ ReferenceMean
    \/ SaveSuvrImage

SpecImage == InitImage /\ [][NextImage]_vars

(***************************************************************************)
(* extract_suv(atlas, pet, labels, suvr, fov=None)  (suvr.py)              *)
(***************************************************************************)
\* int(parts[0]) on the tokens used: the decimal numerals, anything else
\* raises ValueError
Numerals == <<"0", "1", "2", "3">>

IsNumeral(tok) == \E k \in 1..Len(Numerals) : Numerals[k] = tok

ParseInt(tok) == (CHOOSE k \in 1..Len(Numerals) : Numerals[k] = tok) - 1

\* lines 113-119: the lines of the label file, as line.strip().split() leaves
\* them, that are kept (two parts or more)
KeptLines(lines) == SelectSeq(lines, LAMBDA parts : Len(parts) >= 2)

\* line 117 raises ValueError on a kept line whose first part is no integer
LabelsError(lines) ==
    IF \E k \in 1..Len(KeptLines(lines)) : ~IsNumeral(KeptLines(lines)[k][1])
    THEN "ValueError" ELSE "none"

\* lines 111-119: labels_list; the name is the remaining parts (joined by
\* single spaces)
ReadLabels(lines) ==
    [k \in 1..Len(KeptLines(lines)) |->
        <<ParseInt(KeptLines(lines)[k][1]), Tail(KeptLines(lines)[k])>>]

\* line 98: atlas_data * fov_data
TimesFov(atlas, fov) ==
    Vol(ZDim(atlas), [i \in 1..ZDim(atlas) |-> atlas.data[i] * fov.data[i]])

\* line 125: atlas_data == label_index
LabelMask(atlas, label_index) ==
    Vol(ZDim(atlas), [i \in 1..ZDim(atlas) |-> atlas.data[i] = label_index])

\* a selection that keeps the zero intensities
NonZeroVals_KeepsZeros(atlas, pet, label_index) ==
    BoolIndex(pet, LabelMask(atlas, label_index))

\* lines 128-131: pet_roi_vals[pet_roi_vals != 0]
NonZeroVals(atlas, pet, label_index) ==
    SelectSeq(BoolIndex(pet, LabelMask(atlas, label_index)),
              LAMBDA v : v # FromInt(0))

\* lines 134-146: the row of one label
SuvRow(atlas, pet, label_index, roi_name) ==
    LET non_zero_vals == NonZeroVals(atlas, pet, label_index)
    IN IF Len(non_zero_vals) > 0
       THEN [Label |-> label_index, ROI_Name |-> roi_name,
             NonZeroVoxelCount |-> Len(non_zero_vals),
             MeanValue |-> NpMean(non_zero_vals)]
       ELSE [Label |-> label_index, ROI_Name |-> roi_name,
             NonZeroVoxelCount |-> 0, MeanValue |-> FromInt(0)]

\* label files: empty; ascending; descending; a repeated line; a blank line
\* and a line of one part; a first part that is no integer; a label that the
\* atlas does not hold, with a name of two words; the background label
LabelFiles ==
    { <<>>,
      << <<"1", "A">>, <<"2", "B">> >>,
      << <<"2", "B">>, <<"1", "A">> >>,
      << <<"1", "A">>, <<"1", "A">> >>,
      << <<"1", "A">>, <<>>, <<"2">> >>,
      << <<"x", "Name">>, <<"1", "A">> >>,
      << <<"3", "C", "D">> >>,
      << <<"0", "Z">>, <<"1", "A">> >> }

\* the volumes of z voxels over vals, and one of another shape
VolumesOrOther(z, vals) ==
    {Vol(z, d) : d \in [1..z -> vals]} \cup {Vol(z + 1, [i \in 1..(z + 1) |-> 1])}

InitSuv ==
    /\ pc = "load"
    /\ err = "none"
    /\ message = <<>>
    /\ \E z \in 1..MaxZ :
           /\ label_data \in {Vol(z, d) : d \in [1..z -> {1, 2}]}
           /\ pet_data \in VolumesOrOther(z, ImagePetVals)
           /\ \/ /\ fov_data = NoVol
                 /\ args \in {<<"aal3v1.nii", f, "aal3v1.txt", S_AalCsv>> :
                                 f \in {S_PetFile, "absent.nii"}}
              \/ /\ fov_data \in VolumesOrOther(z, FovVals)
                 /\ args = <<"aal3v1.nii", S_PetFile, "aal3v1.txt", S_AalCsv,
                             S_FovFile>>
    /\ ret \in LabelFiles
    /\ labels_list = <<>>
    /\ results = <<>>
    /\ written = {}
    /\ files_ok = TRUE
    /\ mask_data = NoVol
    /\ mean_value = NaN
    /\ pet_img = <<>>
    /\ suvr_img = <<>>
    /\ step = 0
    /\ atlas_data = NoVol
    /\ frame = <<>>
    /\ opened = {}
    /\ external_ok = <<>>
    /\ df = <<>>
    /\ roi_names = <<>>
    /\ ref_value = NaN
    /\ result_df = <<>>
    /\ rule = 1
    /\ calls = 0
    /\ label_ids = <<>>
    /\ roi_label_id = <<>>
    /\ label_names = <<>>
    /\ mean_values = <<>>
    /\ num_voxels = <<>>

suvIdle == <<message, args, label_data, pet_data, fov_data, files_ok, mask_data, mean_value,
             pet_img, suvr_img, frame, opened, step, external_ok, df, tableVars,
             label_ids,
             roi_label_id, label_names, mean_values, num_voxels>>

\* lines 71-107: the files exist, the images load, the FOV (if given) has the
\* shape of the atlas and multiplies it, the PET has the shape of the atlas
LoadAtlasAndPet ==
    /\ pc = "load"
    /\ IF ~IsFile(args[1]) \/ ~IsFile(args[2])
       THEN pc' = "raised" /\ err' = "FileNotFoundError" /\ atlas_data' = atlas_data
       ELSE IF Len(args) = 5 /\ fov_data.shape # label_data.shape
       THEN pc' = "raised" /\ err' = "ValueError" /\ atlas_data' = label_data
       ELSE /\ atlas_data' = IF Len(args) = 5
                             THEN TimesFov(label_data, fov_data)
                             ELSE label_data
            /\ IF atlas_data'.shape # pet_data.shape
               THEN pc' = "raised" /\ err' = "ValueError"
               ELSE pc' = "labels" /\ err' = err
    /\ UNCHANGED <<labels_list, results, written, ret, suvIdle>>

\* lines 109-119: read the label file (held in ret until it is read)
ReadLabelFile ==
    /\ pc = "labels"
    /\ IF LabelsError(ret) # "none"
       THEN pc' = "raised" /\ err' = LabelsError(ret) /\ labels_list' = labels_list
       ELSE pc' = "loop" /\ err' = err /\ labels_list' = ReadLabels(ret)
    /\ UNCHANGED <<atlas_data, results, written, ret, suvIdle>>

\* lines 123-146: one iteration of the loop over labels_list
ExtractSuvRow ==
    /\ pc = "loop"
    /\ Len(results) < Len(labels_list)
    /\ LET entry == labels_list[Len(results) + 1]
       IN results' = Append(results,
                            SuvRow(atlas_data, pet_data, entry[1], entry[2]))
    /\ UNCHANGED <<pc, err, atlas_data, labels_list, written, ret, suvIdle>>

\* lines 148-157: the table is written in the order of results
WriteSuvCsv ==
    /\ pc = "loop"
    /\ Len(results) = Len(labels_list)
    /\ written' = written \cup {[path |-> args[4], content |-> results]}
    /\ pc' = "returned"
    /\ UNCHANGED <<err, atlas_data, labels_list, results, ret, suvIdle>>

NextSuv == LoadAtlasAndPet \/ ReadLabelFile \/ ExtractSuvRow \/ WriteSuvCsv

SpecSuv == InitSuv /\ [][NextSuv]_vars

(***************************************************************************)
(* Properties of extract_suv.                                              *)
(***************************************************************************)
\* the voxels of non-zero PET intensity whose label, by labelOf, is label
NonZeroVoxels(labelOf(_), label) ==
    {i \in 1..ZDim(pet_data) : labelOf(i) = label /\ pet_data.data[i] # 0}

\* row reports the count of S and the mean of the PET over S, or 0 and 0 when
\* S is empty
ReportsVoxels(row, S) ==
    LET idx == SortedSeq(S)
    IN /\ row.NonZeroVoxelCount = Cardinality(S)
       /\ S = {} => row.MeanValue = FromInt(0)
       /\ S # {} =>
              FMul(row.MeanValue, FromInt(Cardinality(S)))
                  = FSum([k \in 1..Len(idx) |-> FromInt(pet_data.data[idx[k]])])

\* the label of voxel i in the atlas file
AtlasLabel(i) == label_data.data[i]

\* the label of voxel i that extract_suv works with: the atlas label times
\* the FOV value when an FOV is given
LabelInFov(i) ==
    IF Len(args) = 5 THEN label_data.data[i] * fov_data.data[i]
    ELSE label_data.data[i]

\* the table has one row per kept line of the label file, in that order
RowPerListedLabel ==
    /\ Len(results) = Len(KeptLines(ret))
    /\ \A k \in 1..Len(results) :
           results[k].Label = ParseInt(KeptLines(ret)[k][1])

\* C17 as stated: in the table extract_suv returns, the row of every label of
\* the label file holds the number of voxels with that atlas label and a
\* non-zero PET intensity and the mean PET intensity over those voxels, and
\* 0 and 0 when there is no such voxel.
C17_CountsLabelVoxels ==
    pc = "returned" =>
        /\ RowPerListedLabel
        /\ \A k \in 1..Len(results) :
               ReportsVoxels(results[k],
                             NonZeroVoxels(AtlasLabel, results[k].Label))

\* C17 amended: the voxels counted and averaged are those whose atlas label,
\* multiplied by the FOV value at the voxel when an FOV is given, equals the
\* label, and whose PET intensity is non-zero; 0 and 0 when there is none.
C17_CountsLabelVoxelsInFov ==
    pc = "returned" =>
        /\ RowPerListedLabel
        /\ \A k \in 1..Len(results) :
               ReportsVoxels(results[k],
                             NonZeroVoxels(LabelInFov, results[k].Label))

\* C17 witness: a call with an FOV that leaves out one of the two voxels of
\* label 1 has returned the row of label 1 from the other voxel, and a zero
\* row for label 2, which the atlas does not hold.
C17_Witness ==
    /\ pc = "returned"
    /\ Len(args) = 5
    /\ label_data.data = <<1, 1>>
    /\ fov_data.data = <<0, 1>>
    /\ pet_data.data = <<1, 3>>
    /\ Len(results) = 2
    /\ results[1].Label = 1
    /\ results[1].NonZeroVoxelCount = 1
    /\ results[1].MeanValue = FromInt(3)
    /\ results[2].Label = 2
    /\ results[2].NonZeroVoxelCount = 0
    /\ results[2].MeanValue = FromInt(0)

\* C18: the table extract_suv writes has one row per region, in ascending
\* Label order, whatever the order or repetition of the lines of the label
\* file.
C18_AscendingLabelOrder ==
    pc = "returned" =>
        /\ written = {[path |-> args[4], content |-> results]}
        /\ \A j, k \in 1..Len(results) :
               j < k => results[j].Label < results[k].Label

(***************************************************************************)
(* run_pup (spm_petproc.py): the calls it makes, in order.                 *)
(***************************************************************************)
\* the functions each module of the package defines, with the least and the
\* greatest number of positional arguments each accepts
ModuleFunctions ==
    [utils |-> [create_pet_fov |-> <<1, 2>>, gunzip_file |-> <<1, 1>>,
                get_pet_resource |-> <<0, 1>>],
     spm_norm |-> [spmnorm |-> <<4, 5>>],
     suvr_image |-> [compute_suvr |-> <<3, 3>>],
     suvr |-> [extract_suv |-> <<4, 5>>],
     suv |-> [extract_roi_data |-> <<2, 3>>, calculate_suvrlr |-> <<1, 1>>,
              calculate_suvr |-> <<2, 2>>, report_suvr |-> <<2, 4>>]]

\* the steps whose outcome the environment decides: the pypetup calls, the
\* FOV file, gunzip, the SPM run
ExternalSteps == {"copy", "motion", "json", "msum", "fov", "gunzip", "norm"}

\* lines 50-116: the calls of run_pup on reference region ref_region; pup
\* marks a call into pypetup, the others name a module of this package
RunPupCalls(ref_region) ==
    << [module |-> "pup", function |-> "copy_file", nargs |-> 2,
        external |-> "copy", key |-> "", writes |-> ""],
       [module |-> "pup", function |-> "copy_file", nargs |-> 2,
        external |-> "copy", key |-> "", writes |-> ""],
       [module |-> "pup", function |-> "perform_motion_correction", nargs |-> 1,
        external |-> "motion", key |-> "", writes |-> ""],
       [module |-> "pup", function |-> "find_frame_indices", nargs |-> 3,
        external |-> "json", key |-> "", writes |-> ""],
       [module |-> "pup", function |-> "load_json", nargs |-> 1,
        external |-> "json", key |-> "", writes |-> ""],
       [module |-> "pup", function |-> "model_sum_pet", nargs |-> 7,
        external |-> "msum", key |-> "", writes |-> ""],
       [module |-> "utils", function |-> "create_pet_fov", nargs |-> 1,
        external |-> "fov", key |-> "", writes |-> ""],
       [module |-> "utils", function |-> "gunzip_file", nargs |-> 1,
        external |-> "gunzip", key |-> "", writes |-> ""],
       [module |-> "utils", function |-> "gunzip_file", nargs |-> 1,
        external |-> "gunzip", key |-> "", writes |-> ""],
       [module |-> "spm_norm", function |-> "spmnorm", nargs |-> 5,
        external |-> "norm", key |-> "", writes |-> ""],
       [module |-> "utils", function |-> "get_pet_resource", nargs |-> 1,
        external |-> "", key |-> ref_region, writes |-> ""],
       [module |-> "suvr_image", function |-> "compute_suvr", nargs |-> 4,
        external |-> "", key |-> "", writes |-> S_OutputFile],
       [module |-> "utils", function |-> "get_pet_resource", nargs |-> 1,
        external |-> "", key |-> "aal", writes |-> ""],
       [module |-> "suv", function |-> "extract_suv", nargs |-> 4,
        external |-> "", key |-> "", writes |-> S_AalCsv],
       [module |-> "utils", function |-> "get_pet_resource", nargs |-> 1,
        external |-> "", key |-> "avid2", writes |-> ""],
       [module |-> "suv", function |-> "extract_suv", nargs |-> 4,
        external |-> "", key |-> "", writes |-> "AVID_2Labels_SUVR.csv"],
       [module |-> "utils", function |-> "get_pet_resource", nargs |-> 1,
        external |-> "", key |-> "avid7", writes |-> ""],
       [module |-> "suv", function |-> "extract_suv", nargs |-> 4,
        external |-> "", key |-> "", writes |-> "AVID_7Labels_SUVR.csv"],
       [module |-> "utils", function |-> "get_pet_resource", nargs |-> 1,
        external |-> "", key |-> "npdka", writes |-> ""],
       [module |-> "suv", function |-> "extract_suv", nargs |-> 4,
        external |-> "", key |-> "", writes |-> "NPDKA_SUVR.csv"] >>

\* the exception a call ends with, "none" if it returns: the attribute must
\* exist in the module, the arguments must fit the signature, and the
\* environment decides the external steps
CallError(call, ok) ==
    IF call.module # "pup" /\ call.function \notin DOMAIN ModuleFunctions[call.module]
    THEN "AttributeError"
    ELSE IF call.module # "pup"
            /\ ( \/ call.nargs < ModuleFunctions[call.module][call.function][1]
                 \/ call.nargs > ModuleFunctions[call.module][call.function][2] )
    THEN "TypeError"
    ELSE IF call.external # "" /\ ~ok[call.external] THEN "ExternalToolFailure"
    ELSE IF call.function = "get_pet_resource"
    THEN GetPetResourceResult(call.key).err
    ELSE "none"

InitPipeline ==
    /\ pc = "run_pup"
    /\ err = "none"
    /\ message = <<>>
    /\ args \in {<<k>> : k \in RunPupRegions}
    /\ external_ok \in [ExternalSteps -> BOOLEAN]
    /\ step = 1
    /\ atlas_data = NoVol
    /\ frame = <<>>
    /\ opened = {}
    /\ written = {}
    /\ ret = <<>>
    /\ files_ok = TRUE
    /\ pet_data = NoVol
    /\ mask_data = NoVol
    /\ fov_data = NoVol
    /\ mean_value = NaN
    /\ pet_img = <<>>
    /\ suvr_img = <<>>
    /\ labels_list = <<>>
    /\ results = <<>>
    /\ df = <<>>
    /\ roi_names = <<>>
    /\ ref_value = NaN
    /\ result_df = <<>>
    /\ rule = 1
    /\ calls = 0
    /\ label_data = NoVol
    /\ label_ids = <<>>
    /\ roi_label_id = <<>>
    /\ label_names = <<>>
    /\ mean_values = <<>>
    /\ num_voxels = <<>>

\* the next call of run_pup: an exception ends the run, the last call's return
\* ends it normally
RunPupStep ==
    /\ pc = "run_pup"
    /\ LET call == RunPupCalls(args[1])[step]
           e == CallError(call, external_ok)
       IN IF e # "none"
          THEN /\ pc' = "raised"
               /\ err' = e
               /\ UNCHANGED <<step, written>>
          ELSE /\ written' = IF call.writes = "" THEN written
                             ELSE written \cup {[path |-> call.writes]}
               /\ err' = err
               /\ IF step = Len(RunPupCalls(args[1]))
                  THEN pc' = "returned" /\ step' = step
                  ELSE pc' = pc /\ step' = step + 1
    /\ UNCHANGED <<message, args, ret, external_ok, files_ok, pet_data,
                   mask_data, fov_data, mean_value, pet_img, suvr_img,
                   labels_list, results, atlas_data, frame, opened, df,
                   tableVars, label_data,
                   label_ids, roi_label_id, label_names, mean_values,
                   num_voxels>>

NextPipeline == RunPupStep

SpecPipeline == InitPipeline /\ [][NextPipeline]_vars

(***************************************************************************)
(* Properties of run_pup.                                                  *)
(***************************************************************************)
\* C12: a run of run_pup whose external steps all succeed, on a reference
\* region of the catalogue, does not end with an exception: it ends by
\* returning, with the SUVR image and the four SUVR tables written.
C12_OrchestrationReachesOutputs ==
    ( /\ pc \in {"returned", "raised"}
      /\ \A s \in ExternalSteps : external_ok[s]
      /\ args[1] \in DOMAIN REFERENCE )
    => /\ pc = "returned"
       /\ {S_OutputFile, S_AalCsv, "AVID_2Labels_SUVR.csv", "AVID_7Labels_SUVR.csv", "NPDKA_SUVR.csv"}
              \subseteq {f.path : f \in written}

(***************************************************************************)
(* Properties of compute_suvr and get_pet_resource.                        *)
(***************************************************************************)
\* the call of compute_suvr has ended
SuvrCallEnded == pc \in {"returned", "raised"} /\ Len(args) >= 3

SameImageShapes == pet_data.shape = mask_data.shape

\* the PET over mask > 0
MaskSelection == MaskedValues(pet_data, mask_data)

\* the PET over mask * fov > 0
FovSelection ==
    BoolIndex(pet_data,
              Vol(ZDim(mask_data),
                  [i \in 1..ZDim(mask_data) |->
                      mask_data.data[i] * fov_data.data[i] > 0]))

\* C13: a call of compute_suvr that supplies an FOV volume (of the shape of
\* the PET and the mask, selecting voxels of non-zero mean) returns with the
\* mean of the PET over the voxels with mask > 0 and fov > 0 as reference
\* value; a call without FOV that returns has used the mean over mask > 0.
C13_FovAwareReference ==
    /\ ( /\ SuvrCallEnded
         /\ Len(args) = 4
         /\ files_ok
         /\ SameImageShapes
         /\ fov_data.shape = mask_data.shape
         /\ FovSelection # <<>>
         /\ NpMean(FovSelection) # FromInt(0) )
       => (pc = "returned" /\ mean_value = NpMean(FovSelection))
    /\ (SuvrCallEnded /\ Len(args) = 3 /\ pc = "returned")
       => mean_value = NpMean(MaskSelection)

\* C14: when compute_suvr returns, every voxel of the output is the PET voxel
\* divided by the mean of the PET over mask > 0, the output image carries the
\* affine and the header of the PET and is the image written at output_path;
\* a constant PET volume gives 1 at every voxel.
C14_DividesByReference ==
    (SuvrCallEnded /\ pc = "returned") =>
        /\ Len(suvr_img.data) = ZDim(pet_data)
        /\ \A i \in 1..ZDim(pet_data) :
               suvr_img.data[i] =
                   FDiv(FromInt(pet_data.data[i]), NpMean(MaskSelection))
        /\ suvr_img.affine = pet_img.affine
        /\ suvr_img.header = pet_img.header
        /\ written = {[path |-> args[3], content |-> suvr_img]}
        /\ (\A i \in 1..ZDim(pet_data) : pet_data.data[i] = pet_data.data[1])
           => \A i \in 1..ZDim(pet_data) : suvr_img.data[i] = FromInt(1)

\* C14 witness: a returned call on a PET volume that is not constant, with a
\* mask that leaves a voxel out.
C14_Witness ==
    /\ pc = "returned"
    /\ Len(args) = 3
    /\ pet_data.data = <<1, 3>>
    /\ mask_data.data = <<0, 1>>
    /\ suvr_img.data = <<Norm(1, 3), FromInt(1)>>

\* the first check of compute_suvr that the call fails, "none" if all pass
FailedCheck ==
    IF ~(args[1] \in ExistingFiles) THEN "FileNotFoundError"
    ELSE IF args[2] \notin DOMAIN REF_REGIONS THEN "ValueError"
    ELSE IF ~files_ok THEN "Exception"
    ELSE IF ~SameImageShapes THEN "ValueError"
    ELSE IF MaskSelection = <<>> THEN "ValueError"
    ELSE IF NpMean(MaskSelection) = FromInt(0) THEN "ValueError"
    ELSE "none"

\* C15: a call of compute_suvr whose PET file is missing, whose reference
\* region is not a key, whose PET and mask shapes differ, whose mask selects
\* no voxel or whose mean over the selection is zero ends with an error and
\* nothing is written; the output is written only when every check passed.
C15_FailsBeforeWriting ==
    /\ pc # "returned" => written = {}
    /\ (Len(args) = 3 /\ FailedCheck # "none") => pc # "returned"
    /\ (Len(args) = 3 /\ pc = "raised") => err = FailedCheck
    /\ (Len(args) = 3 /\ pc = "returned") =>
           (FailedCheck = "none" /\ \E f \in written : f.path = args[3])

\* C15 witness: the call was stopped by the last check, the zero mean.
C15_Witness ==
    /\ pc = "raised"
    /\ Len(args) = 3
    /\ SameImageShapes
    /\ MaskSelection # <<>>
    /\ mean_value = FromInt(0)
    /\ written = {}

\* the keys of the three registries of get_pet_resource
ValidResourceKeys == DOMAIN TEMPLATES \cup DOMAIN ATLASES \cup DOMAIN REFERENCE

\* C19: a lookup of a key that is in no registry ends with an error whose
\* message lists every valid key, and returns no path; a known key gives one
\* path or a pair of paths.  For get_pet_resource and for the reference
\* region of compute_suvr.
C19_UnknownKeyListsValidKeys ==
    /\ (Len(args) = 1 /\ pc \in {"returned", "raised", "run_pup_95"}) =>
           IF args[1] \in ValidResourceKeys
           THEN err = "none" /\ Len(ret) \in {1, 2}
           ELSE /\ pc = "raised"
                /\ ret = <<>>
                /\ ValidResourceKeys \subseteq Range(message)
    /\ (SuvrCallEnded /\ Len(args) = 3 /\ args[1] \in ExistingFiles
            /\ args[2] \notin DOMAIN REF_REGIONS) =>
           /\ pc = "raised"
           /\ DOMAIN REF_REGIONS \subseteq Range(message)

(***************************************************************************)
(* report_suvr(label_file, pet_image_file, fov_image_file=None,            *)
(* output_dir=None) and the command line that calls it (suv.py).           *)
(* A path is the sequence of its components; None is the empty sequence.   *)
(***************************************************************************)
None == <<>>

\* os.path.dirname
Dirname(path) == SubSeq(path, 1, Len(path) - 1)

\* os.path.join(directory, name)
Join(directory, name) == Append(directory, name)

S_PetFov == "PETFOV.nii.gz"

\* lines 24-26 of extract_roi_data: the FOV file it loads
FovFileOf(label_file, fov_image_file) ==
    IF fov_image_file = None THEN Join(Dirname(label_file), S_PetFov)
    ELSE fov_image_file

\* the arguments given on the command line or in a direct call
InitReport ==
    /\ pc \in {"main", "report"}
    /\ err = "none"
    /\ message = <<>>
    /\ args \in [label_file : {<<"subject", "aparc+aseg.nii">>, <<"session", "aparc+aseg.nii">>},
                 pet_image_file : {<<"subject", "pet.nii">>},
                 fov_image_file : {None, <<"fov", "petfov_mri.nii">>, <<"subject", "PETFOV.nii.gz">>},
                 output_dir : {None, <<"out">>, <<"subject">>}]
    /\ frame = IF pc = "report" THEN args ELSE <<>>
    /\ files_ok \in BOOLEAN
    /\ opened = {}
    /\ written = {}
    /\ ret = <<>>
    /\ labels_list = <<>>
    /\ results = <<>>
    /\ atlas_data = NoVol
    /\ pet_data = NoVol
    /\ mask_data = NoVol
    /\ fov_data = NoVol
    /\ mean_value = NaN
    /\ pet_img = <<>>
    /\ suvr_img = <<>>
    /\ step = 0
    /\ external_ok = <<>>
    /\ df = <<>>
    /\ roi_names = <<>>
    /\ ref_value = NaN
    /\ result_df = <<>>
    /\ rule = 1
    /\ calls = 0
    /\ label_data = NoVol
    /\ label_ids = <<>>
    /\ roi_label_id = <<>>
    /\ label_names = <<>>
    /\ mean_values = <<>>
    /\ num_voxels = <<>>

reportIdle == <<message, args, files_ok, ret, labels_list, results, atlas_data,
                pet_data, mask_data, fov_data, mean_value, pet_img, suvr_img,
                step, external_ok, df, tableVars, label_data, label_ids,
                roi_label_id, label_names, mean_values, num_voxels>>

\* lines 375-376: report_suvr(args.label_file, args.pet_image_file,
\* args.output_dir), bound to the parameters by position
MainCallsReport ==
    /\ pc = "main"
    /\ frame' = [label_file |-> args.label_file,
                 pet_image_file |-> args.pet_image_file,
                 fov_image_file |-> args.output_dir,
                 output_dir |-> None]
    /\ pc' = "report"
    /\ UNCHANGED <<err, opened, written, reportIdle>>

\* lines 323-330: the defaults and the two output paths
ReportDefaults ==
    /\ pc = "report"
    /\ LET output_dir == IF frame.output_dir = None
                         THEN Dirname(frame.label_file)
                         ELSE frame.output_dir
           fov_image_file == IF frame.fov_image_file = None
                             THEN Join(output_dir, S_PetFov)
                             ELSE frame.fov_image_file
       IN frame' = [label_file |-> frame.label_file,
                    pet_image_file |-> frame.pet_image_file,
                    fov_image_file |-> fov_image_file,
                    output_dir |-> output_dir,
                    suvrlr_file |-> Join(output_dir, "SUVRLR.csv"),
                    suvr_file |-> Join(output_dir, "SUVR.csv")]
    /\ pc' = "extract"
    /\ UNCHANGED <<err, opened, written, reportIdle>>

\* lines 333-337: extract_roi_data(label_file, pet_image_file), then
\* calculate_suvrlr and calculate_suvr, any of which may end the run
ReportCompute ==
    /\ pc = "extract"
    /\ opened' = {frame.label_file, frame.pet_image_file,
                  FovFileOf(frame.label_file, None)}
    /\ IF ~files_ok
       THEN pc' = "exit" /\ err' = "SystemExit"
       ELSE \/ pc' = "write" /\ err' = err
            \/ pc' = "exit" /\ err' = "SystemExit"
            \/ pc' = "raised" /\ err' = "ValueError"
    /\ UNCHANGED <<frame, written, reportIdle>>

\* lines 339-341: the two tables are written
ReportWrite ==
    /\ pc = "write"
    /\ written' = {[path |-> frame.suvrlr_file], [path |-> frame.suvr_file]}
    /\ pc' = "returned"
    /\ UNCHANGED <<err, frame, opened, reportIdle>>

NextReport == MainCallsReport \/ ReportDefaults \/ ReportCompute \/ ReportWrite

SpecReport == InitReport /\ [][NextReport]_vars

(***************************************************************************)
(* Properties of report_suvr.                                              *)
(***************************************************************************)
\* C20: a run of the command line with --output_dir D and --fov_image_file F
\* that returns has written SUVRLR.csv and SUVR.csv into D and has loaded F
\* as the FOV; a call of report_suvr with an explicit fov_image_file F has
\* loaded F, and no other file, as the FOV.
C20_ArgumentsReachTargets ==
    /\ (pc = "returned" /\ args.output_dir # None) =>
           written = {[path |-> Join(args.output_dir, "SUVRLR.csv")],
                      [path |-> Join(args.output_dir, "SUVR.csv")]}
    /\ (pc \in {"write", "returned"} /\ args.fov_image_file # None) =>
           opened = {args.label_file, args.pet_image_file, args.fov_image_file}

(***************************************************************************)
(* create_pet_fov(pet_file, crop_idx=2) (utils.py).  The mask is a volume  *)
(* of one column of Z slices along the third axis; a path is the sequence  *)
(* of its components; args are the positional arguments of the call.       *)
(***************************************************************************)
MaxSlices == 5

MaxCrop == 3

\* line 51: the default of crop_idx
DefaultCropIdx == 2

\* a bound of a Python slice over an axis of length n: a negative index
\* counts from the end, and the result is clipped to 0..n
SliceBound(i, n) ==
    IF i < 0 THEN (IF i + n < 0 THEN 0 ELSE i + n)
    ELSE (IF i > n THEN n ELSE i)

\* the slices (numbered from 1) that [:stop] selects
SliceTo(stop, n) == 1..SliceBound(stop, n)

\* the slices (numbered from 1) that [start:] selects
SliceFrom(start, n) == (SliceBound(start, n) + 1)..n

\* fov_mask[:, :, sel] = 0
ZeroSlices(mask, sel) ==
    Vol(ZDim(mask), [z \in 1..ZDim(mask) |-> IF z \in sel THEN 0 ELSE mask.data[z]])

\* line 76: np.ones(pet_data.shape[:3], dtype=np.uint8)
OnesMask(shape) == Vol(shape[3], [z \in 1..shape[3] |-> 1])

\* the shapes of the image in pet_file: two to five axes, Z slices on the third
PetShapes ==
    {<<1, 1>>}
    \cup {<<1, 1, z>> : z \in 1..MaxSlices}
    \cup {<<1, 1, z, 2>> : z \in 1..MaxSlices}
    \cup {<<1, 1, z, 2, 1>> : z \in 1..MaxSlices}

InitFov ==
    /\ pc = "call"
    /\ err = "none"
    /\ message = <<>>
    /\ \E pet_file \in {<<"subject", "msum.nii">>, <<"msum.nii">>} :
           args \in {<<pet_file>>} \cup {<<pet_file, c>> : c \in 0..MaxCrop}
    /\ pet_img \in [shape : PetShapes, load : {"ok", "ImageFileError", "OSError"}]
    /\ external_ok \in {<<TRUE>>, <<FALSE>>}
    /\ frame = <<>>
    /\ files_ok = FALSE
    /\ opened = {}
    /\ written = {}
    /\ ret = <<>>
    /\ labels_list = <<>>
    /\ results = <<>>
    /\ atlas_data = NoVol
    /\ pet_data = NoVol
    /\ mask_data = NoVol
    /\ fov_data = NoVol
    /\ mean_value = NaN
    /\ suvr_img = <<>>
    /\ step = 0
    /\ df = <<>>
    /\ roi_names = <<>>
    /\ ref_value = NaN
    /\ result_df = <<>>
    /\ rule = 1
    /\ calls = 0
    /\ label_data = NoVol
    /\ label_ids = <<>>
    /\ roi_label_id = <<>>
    /\ label_names = <<>>
    /\ mean_values = <<>>
    /\ num_voxels = <<>>

fovIdle == <<args, pet_img, external_ok, files_ok, labels_list, results,
             atlas_data, pet_data, mask_data, mean_value, suvr_img, step, df,
             tableVars, label_data, label_ids, roi_label_id, label_names,
             mean_values, num_voxels>>

\* line 51: the parameters of the call, crop_idx taking its default
BindCropIdx ==
    /\ pc = "call"
    /\ frame' = [pet_file |-> args[1],
                 crop_idx |-> IF Len(args) < 2 THEN DefaultCropIdx ELSE args[2]]
    /\ pc' = "load"
    /\ UNCHANGED <<err, message, fov_data, opened, written, ret, fovIdle>>

\* lines 62-72: nib.load and the check of the number of axes; the ValueError
\* of line 66 is raised inside the try and leaves as the RuntimeError of
\* line 72
LoadPetImage ==
    /\ pc = "load"
    /\ opened' = {frame.pet_file}
    /\ IF pet_img.load = "ImageFileError"
       THEN pc' = "raised" /\ err' = "ValueError"
            /\ message' = <<"Error loading NIFTI file", frame.pet_file>>
       ELSE IF pet_img.load # "ok" \/ Len(pet_img.shape) \notin {3, 4}
       THEN pc' = "raised" /\ err' = "RuntimeError"
            /\ message' = <<"An unexpected error occurred">>
       ELSE pc' = "ones" /\ UNCHANGED <<err, message>>
    /\ UNCHANGED <<frame, fov_data, written, ret, fovIdle>>

\* lines 75-76
BuildOnes ==
    /\ pc = "ones"
    /\ fov_data' = OnesMask(pet_img.shape)
    /\ pc' = "inferior"
    /\ UNCHANGED <<err, message, frame, opened, written, ret, fovIdle>>

\* line 77: fov_mask[:, :, :crop_idx] = 0
ClipInferior ==
    /\ pc = "inferior"
    /\ fov_data' = ZeroSlices(fov_data, SliceTo(frame.crop_idx, ZDim(fov_data)))
    /\ pc' = "superior"
    /\ UNCHANGED <<err, message, frame, opened, written, ret, fovIdle>>

\* line 78: fov_mask[:, :, -crop_idx:] = 0
ClipSuperior ==
    /\ pc = "superior"
    /\ fov_data' = ZeroSlices(fov_data, SliceFrom(-frame.crop_idx, ZDim(fov_data)))
    /\ pc' = "save"
    /\ UNCHANGED <<err, message, frame, opened, written, ret, fovIdle>>

\* lines 79-90: the image is saved next to pet_file and its path returned
SaveFov ==
    /\ pc = "save"
    /\ LET fov_file == Join(Dirname(frame.pet_file), "petfov.nii.gz")
       IN IF external_ok[1]
          THEN /\ written' = {[path |-> fov_file, data |-> fov_data]}
               /\ ret' = fov_file
               /\ pc' = "returned"
               /\ UNCHANGED <<err, message>>
          ELSE /\ pc' = "raised" /\ err' = "IOError"
               /\ message' = <<"Error saving NIFTI file", fov_file>>
               /\ UNCHANGED <<written, ret>>
    /\ UNCHANGED <<frame, fov_data, opened, fovIdle>>

NextFov ==
    BindCropIdx \/ LoadPetImage \/ BuildOnes \/ ClipInferior \/ ClipSuperior
    \/ SaveFov

SpecFov == InitFov /\ [][NextFov]_vars

(***************************************************************************)
(* Properties of create_pet_fov.                                           *)
(***************************************************************************)
\* the slices of the mask that hold a non-zero value
NonZeroSlices == {z \in 1..ZDim(fov_data) : fov_data.data[z] # 0}

\* C22: for a PET volume with Z slices along the third axis and any
\* crop_idx c >= 0, the mask built by create_pet_fov is 0 on exactly the
\* first c and the last c slices and 1 on every other voxel, so it has
\* max(0, Z - 2c) non-zero slices (c = 0: nothing is clipped).
C22_FovMaskClipping ==
    pc \in {"save", "returned"} =>
        LET Z == ZDim(fov_data)
            c == frame.crop_idx
        IN /\ \A z \in 1..Z :
                  fov_data.data[z] = IF z <= c \/ z > Z - c THEN 0 ELSE 1
           /\ Cardinality(NonZeroSlices) = IF Z - 2 * c > 0 THEN Z - 2 * c ELSE 0

=============================================================================
